---------------------------- MODULE Spec2Model ----------------------------
(***************************************************************************)
(* Model of the text normalisation procedure clean_content of              *)
(* 01_data-preprocessing (src/src/04_rag-chain.ipynb, cell "3.1 Cleaning   *)
(* Text").  A Python str is a sequence of Unicode code points; every       *)
(* regular expression and str method of the procedure is an operator on    *)
(* such sequences that scans them the way the re module and str do.        *)
(***************************************************************************)
EXTENDS Integers, Sequences, FiniteSets, TLC

-----------------------------------------------------------------------------
(* Characters and character classes *)

\* str.isspace / the class \s of a str pattern
WhitespaceChars ==
    (9..13) \cup (28..32) \cup {133, 160, 5760} \cup (8192..8202)
        \cup {8232, 8233, 8239, 8287, 12288}

IsSpace(c) == c \in WhitespaceChars
\* [A-Z]
IsUpper(c) == c \in 65..90
\* [\x00-\x7F]
IsAscii(c) == c \in 0..127

\* the character at index i, or -1 when i is outside the string
At(t, i) == IF i \in 1..Len(t) THEN t[i] ELSE -1

\* p occurs in t starting at index i
StartsAt(t, i, p) ==
    /\ i >= 1
    /\ i + Len(p) - 1 <= Len(t)
    /\ \A k \in 1..Len(p) : t[i + k - 1] = p[k]

\* Python's `p in t` on strings
Contains(t, p) == \E i \in 1..(Len(t) - Len(p) + 1) : StartsAt(t, i, p)

\* length of the maximal run of whitespace that starts at index i
WsRun(t, i) ==
    CHOOSE k \in 0..(IF i > Len(t) THEN 0 ELSE Len(t) - i + 1) :
        /\ \A j \in i..(i + k - 1) : IsSpace(t[j])
        /\ ~IsSpace(At(t, i + k))

\* str.strip(chars): drop leading and trailing characters of the set S
StripChars(t, S) ==
    IF \A i \in 1..Len(t) : t[i] \in S
    THEN <<>>
    ELSE LET lo == CHOOSE i \in 1..Len(t) :
                      t[i] \notin S /\ \A j \in 1..(i - 1) : t[j] \in S
             hi == CHOOSE i \in 1..Len(t) :
                      t[i] \notin S /\ \A j \in (i + 1)..Len(t) : t[j] \in S
         IN  SubSeq(t, lo, hi)

\* str.strip()
StripWs(t) == StripChars(t, WhitespaceChars)

\* re.sub on a pattern that never matches the empty string: ml[i] is the
\* length of the match that starts at index i (0 when there is none) and
\* rp[i] its replacement; matches are taken leftmost and do not overlap.
\* ScanRange scans from the scan position lo up to, and excluding, hi and
\* gives the text written and the scan position it stops at; a range is
\* scanned as its two halves one after the other.
RECURSIVE ScanRange(_, _, _, _, _)
ScanRange(t, lo, hi, ml, rp) ==
    IF lo >= hi THEN [out |-> <<>>, pos |-> lo]
    ELSE IF hi = lo + 1
         THEN IF ml[lo] > 0 THEN [out |-> rp[lo], pos |-> lo + ml[lo]]
              ELSE [out |-> <<t[lo]>>, pos |-> lo + 1]
    ELSE LET left  == ScanRange(t, lo, (lo + hi) \div 2, ml, rp)
             right == ScanRange(t, left.pos, hi, ml, rp)
         IN  [out |-> left.out \o right.out, pos |-> right.pos]

SubScan(t, i, ml, rp) == ScanRange(t, i, Len(t) + 1, ml, rp).out

\* str.replace(old, new) for a non-empty old
Replace(t, old, new) ==
    LET ml == [i \in 1..Len(t) |-> IF StartsAt(t, i, old) THEN Len(old) ELSE 0]
        rp == [i \in 1..Len(t) |-> new]
    IN  SubScan(t, 1, ml, rp)

\* the concatenation of the strings ss[lo], ..., ss[hi], sep between
\* neighbours
RECURSIVE JoinRange(_, _, _, _)
JoinRange(ss, lo, hi, sep) ==
    IF lo > hi THEN <<>>
    ELSE IF lo = hi THEN ss[lo]
    ELSE JoinRange(ss, lo, (lo + hi) \div 2, sep) \o sep
             \o JoinRange(ss, (lo + hi) \div 2 + 1, hi, sep)

\* sep.join(ss)
Join(ss, sep) == JoinRange(ss, 1, Len(ss), sep)

-----------------------------------------------------------------------------
(* Sentence segmenter: content.strip("[]") and re.split *)

\* content.strip("[]")
StripBrackets(content) == StripChars(content, {91, 93})

\* length of the match of
\*   ',\s*'|",\s*"|", '|', |(?<=[.!?])\s+(?=[A-Z])
\* at index i, alternatives tried in this order
SplitMatchLen(t, i) ==
    LET k == WsRun(t, i + 2)
        w == WsRun(t, i)
    IN  IF At(t, i) = 39 /\ At(t, i + 1) = 44 /\ At(t, i + 2 + k) = 39
            THEN 3 + k
        ELSE IF At(t, i) = 34 /\ At(t, i + 1) = 44 /\ At(t, i + 2 + k) = 34
            THEN 3 + k
        ELSE IF StartsAt(t, i, <<34, 44, 32, 39>>) THEN 4
        ELSE IF StartsAt(t, i, <<39, 44, 32>>) THEN 3
        ELSE IF At(t, i - 1) \in {46, 33, 63} /\ w >= 1 /\ IsUpper(At(t, i + w))
            THEN w
        ELSE 0

\* the start indices of the matches taken when t is scanned from the scan
\* position lo up to, and excluding, hi, and the scan position reached
RECURSIVE MatchRange(_, _, _, _)
MatchRange(t, lo, hi, ml) ==
    IF lo >= hi THEN [starts |-> <<>>, pos |-> lo]
    ELSE IF hi = lo + 1
         THEN IF ml[lo] > 0 THEN [starts |-> <<lo>>, pos |-> lo + ml[lo]]
              ELSE [starts |-> <<>>, pos |-> lo + 1]
    ELSE LET left  == MatchRange(t, lo, (lo + hi) \div 2, ml)
             right == MatchRange(t, left.pos, hi, ml)
         IN  [starts |-> left.starts \o right.starts, pos |-> right.pos]

\* re.split without groups: the pieces of t between the matches
ReSplit(t) ==
    LET ml == [i \in 1..Len(t) |-> SplitMatchLen(t, i)]
        st == MatchRange(t, 1, Len(t) + 1, ml).starts
    IN  [k \in 1..(Len(st) + 1) |->
            SubSeq(t, IF k = 1 THEN 1 ELSE st[k - 1] + ml[st[k - 1]],
                      IF k = Len(st) + 1 THEN Len(t) ELSE st[k] - 1)]

\* variant of Segment: a content with nothing left after the strip has no
\* fragments
Segment_noneForEmpty(content) ==
    IF StripBrackets(content) = <<>> THEN <<>> ELSE ReSplit(StripBrackets(content))

\* variant of Segment: fragments that are empty are left out
Segment_dropEmpty(content) ==
    SelectSeq(ReSplit(StripBrackets(content)), LAMBDA s : Len(s) > 0)

\* lines 1-2 of clean_content: the fragment sequence of a content string
Segment(content) == ReSplit(StripBrackets(content))

-----------------------------------------------------------------------------
(* Boilerplate truncator *)

\* "Sign in to get the best natural gas news and data"
BannerMarker == <<83, 105, 103, 110, 32, 105, 110, 32, 116, 111, 32, 103, 101, 116, 32, 116, 104, 101, 32, 98, 101, 115, 116, 32, 110, 97, 116, 117, 114, 97, 108, 32, 103, 97, 115, 32, 110, 101, 119, 115, 32, 97, 110, 100, 32, 100, 97, 116, 97>>

\* number of leading fragments dropped for the naturalgasintel banner
BannerDropCount == 11

\* "The Sensi"
StopPhrase1 == <<84, 104, 101, 32, 83, 101, 110, 115, 105>>
\* "Recharge is part of NHST Global Publications AS and we are responsible
\*  for the data that you register with us"
StopPhrase2 == <<82, 101, 99, 104, 97, 114, 103, 101, 32, 105, 115, 32, 112, 97, 114, 116, 32, 111, 102, 32, 78, 72, 83, 84, 32, 71, 108, 111, 98, 97, 108, 32, 80, 117, 98, 108, 105, 99, 97, 116, 105, 111, 110, 115, 32, 65, 83, 32, 97, 110, 100, 32, 119, 101, 32, 97, 114, 101, 32, 114, 101, 115, 112, 111, 110, 115, 105, 98, 108, 101, 32, 102, 111, 114, 32, 116, 104, 101, 32, 100, 97, 116, 97, 32, 116, 104, 97, 116, 32, 121, 111, 117, 32, 114, 101, 103, 105, 115, 116, 101, 114, 32, 119, 105, 116, 104, 32, 117, 115>>
\* "Recharge is part of DN Media Group"
StopPhrase3 == <<82, 101, 99, 104, 97, 114, 103, 101, 32, 105, 115, 32, 112, 97, 114, 116, 32, 111, 102, 32, 68, 78, 32, 77, 101, 100, 105, 97, 32, 71, 114, 111, 117, 112>>
\* "Ecofriend.Org"
StopPhrase4 == <<69, 99, 111, 102, 114, 105, 101, 110, 100, 46, 79, 114, 103>>
\* "EcoFriend.com"
StopPhrase5 == <<69, 99, 111, 70, 114, 105, 101, 110, 100, 46, 99, 111, 109>>
\* "Thank you for subscribing to the email newsletter."
StopPhrase6 == <<84, 104, 97, 110, 107, 32, 121, 111, 117, 32, 102, 111, 114, 32, 115, 117, 98, 115, 99, 114, 105, 98, 105, 110, 103, 32, 116, 111, 32, 116, 104, 101, 32, 101, 109, 97, 105, 108, 32, 110, 101, 119, 115, 108, 101, 116, 116, 101, 114, 46>>
\* "To use the full function of this web site, JavaScript needs to be
\*  enabled in your browser."
StopPhrase7 == <<84, 111, 32, 117, 115, 101, 32, 116, 104, 101, 32, 102, 117, 108, 108, 32, 102, 117, 110, 99, 116, 105, 111, 110, 32, 111, 102, 32, 116, 104, 105, 115, 32, 119, 101, 98, 32, 115, 105, 116, 101, 44, 32, 74, 97, 118, 97, 83, 99, 114, 105, 112, 116, 32, 110, 101, 101, 100, 115, 32, 116, 111, 32, 98, 101, 32, 101, 110, 97, 98, 108, 101, 100, 32, 105, 110, 32, 121, 111, 117, 114, 32, 98, 114, 111, 119, 115, 101, 114, 46>>
\* "This site uses Akismet to reduce spam. Learn how your comment data is
\*  processed."
StopPhrase8 == <<84, 104, 105, 115, 32, 115, 105, 116, 101, 32, 117, 115, 101, 115, 32, 65, 107, 105, 115, 109, 101, 116, 32, 116, 111, 32, 114, 101, 100, 117, 99, 101, 32, 115, 112, 97, 109, 46, 32, 76, 101, 97, 114, 110, 32, 104, 111, 119, 32, 121, 111, 117, 114, 32, 99, 111, 109, 109, 101, 110, 116, 32, 100, 97, 116, 97, 32, 105, 115, 32, 112, 114, 111, 99, 101, 115, 115, 101, 100, 46>>
\* "Please join in the discussion in the comments below."
StopPhrase9 == <<80, 108, 101, 97, 115, 101, 32, 106, 111, 105, 110, 32, 105, 110, 32, 116, 104, 101, 32, 100, 105, 115, 99, 117, 115, 115, 105, 111, 110, 32, 105, 110, 32, 116, 104, 101, 32, 99, 111, 109, 109, 101, 110, 116, 115, 32, 98, 101, 108, 111, 119, 46>>
\* "Advertise with CleanTechnica"
StopPhrase10 == <<65, 100, 118, 101, 114, 116, 105, 115, 101, 32, 119, 105, 116, 104, 32, 67, 108, 101, 97, 110, 84, 101, 99, 104, 110, 105, 99, 97>>
\* "Copyright (c) 2023 CleanTechnica", (c) being U+00A9
StopPhrase11 == <<67, 111, 112, 121, 114, 105, 103, 104, 116, 32, 169, 32, 50, 48, 50, 51, 32, 67, 108, 101, 97, 110, 84, 101, 99, 104, 110, 105, 99, 97>>
\* "Solar Industry offers industry participants probing"
StopPhrase12 == <<83, 111, 108, 97, 114, 32, 73, 110, 100, 117, 115, 116, 114, 121, 32, 111, 102, 102, 101, 114, 115, 32, 105, 110, 100, 117, 115, 116, 114, 121, 32, 112, 97, 114, 116, 105, 99, 105, 112, 97, 110, 116, 115, 32, 112, 114, 111, 98, 105, 110, 103>>
\* "This website uses cookies to anonymously"
StopPhrase13 == <<84, 104, 105, 115, 32, 119, 101, 98, 115, 105, 116, 101, 32, 117, 115, 101, 115, 32, 99, 111, 111, 107, 105, 101, 115, 32, 116, 111, 32, 97, 110, 111, 110, 121, 109, 111, 117, 115, 108, 121>>
\* "By submitting this form you agree to pv magazine using your data"
StopPhrase14 == <<66, 121, 32, 115, 117, 98, 109, 105, 116, 116, 105, 110, 103, 32, 116, 104, 105, 115, 32, 102, 111, 114, 109, 32, 121, 111, 117, 32, 97, 103, 114, 101, 101, 32, 116, 111, 32, 112, 118, 32, 109, 97, 103, 97, 122, 105, 110, 101, 32, 117, 115, 105, 110, 103, 32, 121, 111, 117, 114, 32, 100, 97, 116, 97>>
\* "This content is protected by copyright and may not be reused"
StopPhrase15 == <<84, 104, 105, 115, 32, 99, 111, 110, 116, 101, 110, 116, 32, 105, 115, 32, 112, 114, 111, 116, 101, 99, 116, 101, 100, 32, 98, 121, 32, 99, 111, 112, 121, 114, 105, 103, 104, 116, 32, 97, 110, 100, 32, 109, 97, 121, 32, 110, 111, 116, 32, 98, 101, 32, 114, 101, 117, 115, 101, 100>>
\* "(c) 2021 Natural Gas Intelligence. All rights reserved.", (c) being U+00A9
StopPhrase16 == <<169, 32, 50, 48, 50, 49, 32, 78, 97, 116, 117, 114, 97, 108, 32, 71, 97, 115, 32, 73, 110, 116, 101, 108, 108, 105, 103, 101, 110, 99, 101, 46, 32, 65, 108, 108, 32, 114, 105, 103, 104, 116, 115, 32, 114, 101, 115, 101, 114, 118, 101, 100, 46>>

stop_phrases ==
    << StopPhrase1, StopPhrase2, StopPhrase3, StopPhrase4, StopPhrase5,
       StopPhrase6, StopPhrase7, StopPhrase8, StopPhrase9, StopPhrase10,
       StopPhrase11, StopPhrase12, StopPhrase13, StopPhrase14, StopPhrase15,
       StopPhrase16 >>

\* any(stop_phrase in sentence for stop_phrase in stop_phrases)
HasStopPhrase(sentence) ==
    \E n \in 1..Len(stop_phrases) : Contains(sentence, stop_phrases[n])

\* variant of DropBanner: the marker is looked for in every fragment
DropBanner_anyFragment(ss) ==
    IF \E n \in 1..Len(ss) : Contains(ss[n], BannerMarker)
    THEN SubSeq(ss, BannerDropCount + 1, Len(ss))
    ELSE ss

\* if marker in sentences[0]: sentences = sentences[11:]
DropBanner(ss) ==
    IF Contains(ss[1], BannerMarker)
    THEN SubSeq(ss, BannerDropCount + 1, Len(ss))
    ELSE ss

\* the for loop: at the first i whose sentence has a stop phrase,
\* sentences = sentences[:i] and break
RECURSIVE TruncateFrom(_, _)
TruncateFrom(ss, i) ==
    IF i > Len(ss) THEN ss
    ELSE IF HasStopPhrase(ss[i]) THEN SubSeq(ss, 1, i - 1)
    ELSE TruncateFrom(ss, i + 1)

\* variant of TruncateAtStopPhrase: the matching fragment is kept,
\* sentences[:i + 1]
RECURSIVE TruncateFrom_inclusive(_, _)
TruncateFrom_inclusive(ss, i) ==
    IF i > Len(ss) THEN ss
    ELSE IF HasStopPhrase(ss[i]) THEN SubSeq(ss, 1, i)
    ELSE TruncateFrom_inclusive(ss, i + 1)

TruncateAtStopPhrase_inclusive(ss) == TruncateFrom_inclusive(ss, 1)

\* variant of TruncateAtStopPhrase: only the matching fragment is removed,
\* sentences[:i] + sentences[i + 1:]
RECURSIVE TruncateFrom_dropOnly(_, _)
TruncateFrom_dropOnly(ss, i) ==
    IF i > Len(ss) THEN ss
    ELSE IF HasStopPhrase(ss[i]) THEN SubSeq(ss, 1, i - 1) \o SubSeq(ss, i + 1, Len(ss))
    ELSE TruncateFrom_dropOnly(ss, i + 1)

TruncateAtStopPhrase_dropOnly(ss) == TruncateFrom_dropOnly(ss, 1)

TruncateAtStopPhrase(ss) == TruncateFrom(ss, 1)

-----------------------------------------------------------------------------
(* Artifact stripper *)

\* re.sub on single characters: each character of the set S is replaced by r
SubChars(t, S, r) ==
    SubScan(t, 1, [i \in 1..Len(t) |-> IF t[i] \in S THEN 1 ELSE 0],
                  [i \in 1..Len(t) |-> r])

\* ' '.join(sentence.strip() for sentence in sentences)
JoinSentences(ss) ==
    Join([n \in 1..Len(ss) |-> StripWs(ss[n])], <<32>>)

\* re.sub(r'[U+2018 U+2019]', "'", t)
NormalizeApostrophes(t) == SubChars(t, {8216, 8217}, <<39>>)

\* variant of BraceBlockEnd: the match is greedy, it runs to the last
\* closing brace that a parenthesis follows
BraceBlockEnd_greedy(t, i) ==
    LET Closes(j) == t[j] = 125 /\ At(t, j + 1 + WsRun(t, j + 1)) = 41
    IN  IF At(t, i) = 123 /\ \E j \in (i + 1)..Len(t) : Closes(j)
        THEN LET j == CHOOSE j \in (i + 1)..Len(t) :
                          Closes(j) /\ \A m \in (j + 1)..Len(t) : ~Closes(m)
                 e == j + 1 + WsRun(t, j + 1)
             IN  IF At(t, e + 1) = 44 THEN e + 1 ELSE e
        ELSE 0

\* match of \{.*?\}\s*\),? (DOTALL) at index i: the index of its last
\* character, 0 when there is no match
BraceBlockEnd(t, i) ==
    LET Closes(j) == t[j] = 125 /\ At(t, j + 1 + WsRun(t, j + 1)) = 41
    IN  IF At(t, i) = 123 /\ \E j \in (i + 1)..Len(t) : Closes(j)
        THEN LET j == CHOOSE j \in (i + 1)..Len(t) :
                          Closes(j) /\ \A m \in (i + 1)..(j - 1) : ~Closes(m)
                 e == j + 1 + WsRun(t, j + 1)
             IN  IF At(t, e + 1) = 44 THEN e + 1 ELSE e
        ELSE 0

\* re.sub(r'\{.*?\}\s*\),?', '', t, flags=re.DOTALL)
RemoveBraceBlocks(t) ==
    SubScan(t, 1,
            [i \in 1..Len(t) |->
                IF BraceBlockEnd(t, i) > 0 THEN BraceBlockEnd(t, i) - i + 1 ELSE 0],
            [i \in 1..Len(t) |-> <<>>])

\* "window.dojoRequire"
DojoRequire == <<119, 105, 110, 100, 111, 119, 46, 100, 111, 106, 111, 82, 101, 113, 117, 105, 114, 101>>

\* match of window\.dojoRequire\s*\(.*?\)\s*[,;]? (DOTALL) at index i: the
\* index of its last character, 0 when there is no match
DojoEnd(t, i) ==
    LET open == i + Len(DojoRequire) + WsRun(t, i + Len(DojoRequire))
    IN  IF /\ StartsAt(t, i, DojoRequire)
           /\ At(t, open) = 40
           /\ \E j \in (open + 1)..Len(t) : t[j] = 41
        THEN LET j == CHOOSE j \in (open + 1)..Len(t) :
                          t[j] = 41 /\ \A m \in (open + 1)..(j - 1) : t[m] # 41
                 e == j + WsRun(t, j + 1)
             IN  IF At(t, e + 1) \in {44, 59} THEN e + 1 ELSE e
        ELSE 0

\* re.sub(r'window\.dojoRequire\s*\(.*?\)\s*[,;]?', '', t, flags=re.DOTALL)
RemoveDojoRequire(t) ==
    SubScan(t, 1,
            [i \in 1..Len(t) |->
                IF DojoEnd(t, i) > 0 THEN DojoEnd(t, i) - i + 1 ELSE 0],
            [i \in 1..Len(t) |-> <<>>])

\* re.sub(r'\( |\U+2019 |U+201D|U+201C|U+2026', lambda ..., t): "( " becomes
\* "(", U+2019 followed by a space loses the space, the other glyphs vanish
CombinedSub(t) ==
    SubScan(t, 1,
            [i \in 1..Len(t) |->
                IF StartsAt(t, i, <<40, 32>>) \/ StartsAt(t, i, <<8217, 32>>) THEN 2
                ELSE IF t[i] \in {8221, 8220, 8230} THEN 1
                ELSE 0],
            [i \in 1..Len(t) |->
                IF StartsAt(t, i, <<40, 32>>) THEN <<40>>
                ELSE IF StartsAt(t, i, <<8217, 32>>) THEN <<8217>>
                ELSE <<>>])

\* re.sub(r'\s+', ' ', t).strip()
CollapseWhitespace(t) ==
    StripWs(SubScan(t, 1,
                    [i \in 1..Len(t) |-> WsRun(t, i)],
                    [i \in 1..Len(t) |-> <<32>>]))

\* re.sub(r'[U+201C U+201D;:"\[\]`]', '', t)
RemoveQuotesBrackets(t) == SubChars(t, {8220, 8221, 59, 58, 34, 91, 93, 96}, <<>>)

\* re.sub(r'\s+([.,?!])', r'\1', t)
RemoveSpaceBeforePunct(t) ==
    LET Hit(i) == WsRun(t, i) >= 1 /\ At(t, i + WsRun(t, i)) \in {46, 44, 63, 33}
    IN  SubScan(t, 1,
                [i \in 1..Len(t) |-> IF Hit(i) THEN WsRun(t, i) + 1 ELSE 0],
                [i \in 1..Len(t) |-> IF Hit(i) THEN <<t[i + WsRun(t, i)]>> ELSE <<>>])

\* re.sub(r'\s*[-U+2013 U+2014]\s*', ' ', t)
ReplaceDashes(t) ==
    LET Hit(i) == At(t, i + WsRun(t, i)) \in {45, 8211, 8212}
        MLen(i) == WsRun(t, i) + 1 + WsRun(t, i + WsRun(t, i) + 1)
    IN  SubScan(t, 1,
                [i \in 1..Len(t) |-> IF Hit(i) THEN MLen(i) ELSE 0],
                [i \in 1..Len(t) |-> <<32>>])

\* re.sub(r'\( ', '(', t)
RemoveSpaceAfterParen(t) == Replace(t, <<40, 32>>, <<40>>)

\* re.sub(r'\.,', '.', t)
RemoveCommaAfterPeriod(t) == Replace(t, <<46, 44>>, <<46>>)

\* length of the maximal run of characters of the set S that starts at i
RunOf(t, i, S) ==
    CHOOSE k \in 0..(IF i > Len(t) THEN 0 ELSE Len(t) - i + 1) :
        /\ \A j \in i..(i + k - 1) : t[j] \in S
        /\ At(t, i + k) \notin S

\* variant of StripNonAscii: the class is [^\x00-\xFF]
StripNonAscii_latin1(t) ==
    SubScan(t, 1, [i \in 1..Len(t) |-> IF t[i] > 255 THEN 1 ELSE 0],
                  [i \in 1..Len(t) |-> <<>>])

\* re.sub(r'[^\x00-\x7F]+', '', t)
StripNonAscii(t) ==
    SubScan(t, 1,
            [i \in 1..Len(t) |-> IF IsAscii(t[i]) THEN 0
                                 ELSE CHOOSE k \in 1..(Len(t) - i + 1) :
                                        /\ \A j \in i..(i + k - 1) : ~IsAscii(t[j])
                                        /\ (i + k > Len(t) \/ IsAscii(t[i + k]))],
            [i \in 1..Len(t) |-> <<>>])

\* re.sub(r'\.{2,}', '.', t)
CollapsePeriods(t) ==
    SubScan(t, 1,
            [i \in 1..Len(t) |-> IF RunOf(t, i, {46}) >= 2 THEN RunOf(t, i, {46}) ELSE 0],
            [i \in 1..Len(t) |-> <<46>>])

\* re.sub(r"(?<!s)' ", '', t)
RemoveDanglingApostrophe(t) ==
    SubScan(t, 1,
            [i \in 1..Len(t) |->
                IF StartsAt(t, i, <<39, 32>>) /\ At(t, i - 1) # 115 THEN 2 ELSE 0],
            [i \in 1..Len(t) |-> <<>>])

\* str.split(): the maximal runs of non-whitespace characters, in order
Words(t) ==
    LET starts == { i \in 1..Len(t) : ~IsSpace(t[i]) /\ (i = 1 \/ IsSpace(t[i - 1])) }
        nth(k) == CHOOSE i \in starts : Cardinality({ j \in starts : j < i }) = k - 1
        end(i) == CHOOSE e \in i..Len(t) :
                      /\ \A j \in i..e : ~IsSpace(t[j])
                      /\ (e = Len(t) \/ IsSpace(t[e + 1]))
    IN  [k \in 1..Cardinality(starts) |-> SubSeq(t, nth(k), end(nth(k)))]

\* "u200b"
ZeroWidthTag == <<117, 50, 48, 48, 98>>

\* ' '.join([word for word in t.split() if 'u200b' not in word])
DropTaggedWords(t) ==
    Join(SelectSeq(Words(t), LAMBDA w : ~Contains(w, ZeroWidthTag)), <<32>>)

\* lines "Step 3" to the removal of ".," of clean_content: the texts after
\* the join and after each re.sub, in the order of the code
CleanupTexts(ss) ==
    LET t1  == JoinSentences(ss)
        t2  == NormalizeApostrophes(t1)
        t3  == RemoveBraceBlocks(t2)
        t4  == RemoveDojoRequire(t3)
        t5  == CombinedSub(t4)
        t6  == CollapseWhitespace(t5)
        t7  == RemoveQuotesBrackets(t6)
        t8  == RemoveSpaceBeforePunct(t7)
        t9  == ReplaceDashes(t8)
        t10 == CollapseWhitespace(t9)
        t11 == RemoveSpaceAfterParen(t10)
        t12 == RemoveCommaAfterPeriod(t11)
    IN  << t1, t2, t3, t4, t5, t6, t7, t8, t9, t10, t11, t12 >>

\* the text that enters the removal of non-ASCII characters
BeforeNonAsciiStrip(ss) == CleanupTexts(ss)[12]

\* the rest of the clean-up up to the u200b filter
StripArtifacts(ss) ==
    LET t13 == StripNonAscii(BeforeNonAsciiStrip(ss))
        t14 == CollapsePeriods(t13)
        t15 == RemoveDanglingApostrophe(t14)
    IN  DropTaggedWords(t15)

-----------------------------------------------------------------------------
(* Abbreviation expander *)

\* the dict abbreviations, in insertion order
abbreviations ==
    << [abbr |-> <<85, 46, 83, 46>>,     full |-> <<85, 110, 105, 116, 101, 100, 32, 83, 116, 97, 116, 101, 115, 32>>],
       [abbr |-> <<85, 46, 75, 46>>,     full |-> <<85, 110, 105, 116, 101, 100, 32, 75, 105, 110, 103, 100, 111, 109>>],
       [abbr |-> <<69, 46, 85, 46>>,     full |-> <<69, 117, 114, 111, 112, 101, 97, 110, 32, 85, 110, 105, 111, 110>>],
       [abbr |-> <<85, 46, 65, 46, 69, 46>>,   full |-> <<85, 110, 105, 116, 101, 100, 32, 65, 114, 97, 98, 32, 69, 109, 105, 114, 97, 116, 101, 115>>],
       [abbr |-> <<85, 46, 78, 46>>,     full |-> <<85, 110, 105, 116, 101, 100, 32, 78, 97, 116, 105, 111, 110, 115>>],
       [abbr |-> <<85, 46, 83, 46, 83, 46, 82, 46>>, full |-> <<83, 111, 118, 105, 101, 116, 32, 85, 110, 105, 111, 110>>] >>

\* for abbr, full in abbreviations.items(): t = t.replace(abbr, full)
RECURSIVE ExpandFrom(_, _)
ExpandFrom(t, n) ==
    IF n > Len(abbreviations) THEN t
    ELSE ExpandFrom(Replace(t, abbreviations[n].abbr, abbreviations[n].full), n + 1)

\* variant of ExpandAbbreviations: the loop leaves out the first entry
ExpandAbbreviations_fromSecond(t) == ExpandFrom(t, 2)

ExpandAbbreviations(t) == ExpandFrom(t, 1)

-----------------------------------------------------------------------------
(* Literal replacements, period clean-up and cookie sentence *)

\* variant of FinalReplacements: without the replacement of two spaces by one
FinalReplacements_keepDouble(t) ==
    LET r1  == Replace(t,   <<32, 8211, 32>>, <<32>>)
        r2  == Replace(r1,  <<39, 44, 32>>, <<32>>)
        r3  == Replace(r2,  <<32, 39, 32>>, <<32>>)
        r4  == Replace(r3,  <<32, 39>>, <<32>>)
        r5  == Replace(r4,  <<39, 32, 115>>, <<39, 115>>)
        r6  == Replace(r5,  <<32, 39>>, <<32>>)
        r8  == Replace(r6,  <<125, 41, 44, 32>>, <<>>)
        r9  == Replace(r8,  <<39, 46>>, <<46>>)
    IN  Replace(r9, <<112, 118, 32, 109, 97, 103, 97, 122, 105, 110, 101>>, <<80, 86, 32, 77, 97, 103, 97, 122, 105, 110, 101>>)

\* variant of FinalReplacements: the brand name is written with a space
\* after it, "PV Magazine "
FinalReplacements_trailingSpace(t) ==
    LET r1  == Replace(t,   <<32, 8211, 32>>, <<32>>)
        r2  == Replace(r1,  <<39, 44, 32>>, <<32>>)
        r3  == Replace(r2,  <<32, 39, 32>>, <<32>>)
        r4  == Replace(r3,  <<32, 39>>, <<32>>)
        r5  == Replace(r4,  <<39, 32, 115>>, <<39, 115>>)
        r6  == Replace(r5,  <<32, 39>>, <<32>>)
        r7  == Replace(r6,  <<32, 32>>, <<32>>)
        r8  == Replace(r7,  <<125, 41, 44, 32>>, <<>>)
        r9  == Replace(r8,  <<39, 46>>, <<46>>)
    IN  Replace(r9, <<112, 118, 32, 109, 97, 103, 97, 122, 105, 110, 101>>, <<80, 86, 32, 77, 97, 103, 97, 122, 105, 110, 101, 32>>)

\* the ten str.replace calls after the expansion, in the order of the code
FinalReplacements(t) ==
    LET r1  == Replace(t,   <<32, 8211, 32>>, <<32>>)
        r2  == Replace(r1,  <<39, 44, 32>>, <<32>>)
        r3  == Replace(r2,  <<32, 39, 32>>, <<32>>)
        r4  == Replace(r3,  <<32, 39>>, <<32>>)
        r5  == Replace(r4,  <<39, 32, 115>>, <<39, 115>>)
        r6  == Replace(r5,  <<32, 39>>, <<32>>)
        r7  == Replace(r6,  <<32, 32>>, <<32>>)
        r8  == Replace(r7,  <<125, 41, 44, 32>>, <<>>)
        r9  == Replace(r8,  <<39, 46>>, <<46>>)
    IN  Replace(r9, <<112, 118, 32, 109, 97, 103, 97, 122, 105, 110, 101>>, <<80, 86, 32, 77, 97, 103, 97, 122, 105, 110, 101>>)

\* variant of DropPeriods: a period that ends the text is kept as well
DropPeriods_keepFinal(t) ==
    SubScan(t, 1,
            [i \in 1..Len(t) |->
                IF t[i] = 46 /\ i < Len(t)
                             /\ ~(At(t, i + 1) = 32 /\ IsUpper(At(t, i + 2)))
                THEN 1 ELSE 0],
            [i \in 1..Len(t) |-> <<>>])

\* re.sub(r'\.(?! [A-Z])', '', t)
DropPeriods(t) ==
    SubScan(t, 1,
            [i \in 1..Len(t) |->
                IF t[i] = 46 /\ ~(At(t, i + 1) = 32 /\ IsUpper(At(t, i + 2)))
                THEN 1 ELSE 0],
            [i \in 1..Len(t) |-> <<>>])

\* "By clicking Allow All you agree to the storing of cookies on your device
\*  to enhance site navigation, analyse site usage and support us in
\*  providing free open access scientific content. More info. "
cookie_text == <<66, 121, 32, 99, 108, 105, 99, 107, 105, 110, 103, 32, 65, 108, 108, 111, 119, 32, 65, 108, 108, 32, 121, 111, 117, 32, 97, 103, 114, 101, 101, 32, 116, 111, 32, 116, 104, 101, 32, 115, 116, 111, 114, 105, 110, 103, 32, 111, 102, 32, 99, 111, 111, 107, 105, 101, 115, 32, 111, 110, 32, 121, 111, 117, 114, 32, 100, 101, 118, 105, 99, 101, 32, 116, 111, 32, 101, 110, 104, 97, 110, 99, 101, 32, 115, 105, 116, 101, 32, 110, 97, 118, 105, 103, 97, 116, 105, 111, 110, 44, 32, 97, 110, 97, 108, 121, 115, 101, 32, 115, 105, 116, 101, 32, 117, 115, 97, 103, 101, 32, 97, 110, 100, 32, 115, 117, 112, 112, 111, 114, 116, 32, 117, 115, 32, 105, 110, 32, 112, 114, 111, 118, 105, 100, 105, 110, 103, 32, 102, 114, 101, 101, 32, 111, 112, 101, 110, 32, 97, 99, 99, 101, 115, 115, 32, 115, 99, 105, 101, 110, 116, 105, 102, 105, 99, 32, 99, 111, 110, 116, 101, 110, 116, 46, 32, 77, 111, 114, 101, 32, 105, 110, 102, 111, 46, 32>>

\* cleaned_text.replace(cookie_text, "")
RemoveCookieText(t) == Replace(t, cookie_text, <<>>)

\* variant of Finish: the periods are dropped before the literal replacements
Finish_periodsFirst(t) == RemoveCookieText(FinalReplacements(DropPeriods(t)))

\* the statements of clean_content after the expansion
Finish(t) == RemoveCookieText(DropPeriods(FinalReplacements(t)))

\* clean_content as a whole: what it returns.  Each statement runs on the
\* value the statements before it computed: s1, s2 and s3 are the values of
\* sentences, t1 and t2 those of cleaned_text.
clean_content(content) ==
    CHOOSE result \in
        { Finish(t2) : t2 \in
        { ExpandAbbreviations(t1) : t1 \in
        { StripArtifacts(s3) : s3 \in
        { TruncateAtStopPhrase(s2) : s2 \in
        { DropBanner(s1) : s1 \in
        { Segment(content) } } } } } } : TRUE

-----------------------------------------------------------------------------
(* Inputs *)

\* largest number of fragment texts in a generated content string
MaxFrags == 3

\* fragment texts: "Ab", "The Sensi", "U.S.", "it(U+2019)s (U+00E9)",
\* "pv magazine" and the banner marker
FragTexts ==
    { <<65, 98>>, <<84, 104, 101, 32, 83, 101, 110, 115, 105>>, <<85, 46, 83, 46>>, <<105, 116, 8217, 115, 32, 233>>, <<112, 118, 32, 109, 97, 103, 97, 122, 105, 110, 101>>,
      BannerMarker }

\* separators between fragment texts: the list delimiter "', '" and a space
Separators == { <<39, 44, 32, 39>>, <<32>> }

\* "Sign in to get the best natural gas news and data', 'x', 'The Sensi',
\*  'x', 'x', 'x', 'x', 'x', 'x', 'x', 'x', '": the banner fragment and ten
\* more fragments of the preamble, one of them with a stop phrase
BannerPreamble ==
    BannerMarker \o <<39, 44, 32, 39, 120, 39, 44, 32, 39, 84, 104, 101, 32, 83, 101, 110, 115, 105, 39, 44, 32, 39, 120, 39, 44, 32, 39, 120, 39, 44, 32, 39, 120, 39, 44, 32, 39, 120, 39, 44, 32, 39, 120, 39, 44, 32, 39, 120, 39, 44, 32, 39, 120, 39, 44, 32, 39, 120, 39, 44, 32, 39>>

\* how a body is framed: as it is, as a serialised list "['...']", or after
\* the banner preamble
Frames == {"plain", "list", "banner"}

Frame(fr, body) ==
    IF fr = "list" THEN <<91, 39>> \o body \o <<39, 93>>
    ELSE IF fr = "banner" THEN BannerPreamble \o body
    ELSE body

FragSeqs == UNION { [1..n -> FragTexts] : n \in 0..MaxFrags }

GeneratedContents ==
    { Frame(fr, Join(fs, sep)) : fr \in Frames, fs \in FragSeqs, sep \in Separators }

\* "['Hello world. This is a test.', 'Thank you for subscribing to the email
\*  newsletter.', 'ignored tail']"
Scenario1 == <<91, 39, 72, 101, 108, 108, 111, 32, 119, 111, 114, 108, 100, 46, 32, 84, 104, 105, 115, 32, 105, 115, 32, 97, 32, 116, 101, 115, 116, 46, 39, 44, 32, 39, 84, 104, 97, 110, 107, 32, 121, 111, 117, 32, 102, 111, 114, 32, 115, 117, 98, 115, 99, 114, 105, 98, 105, 110, 103, 32, 116, 111, 32, 116, 104, 101, 32, 101, 109, 97, 105, 108, 32, 110, 101, 119, 115, 108, 101, 116, 116, 101, 114, 46, 39, 44, 32, 39, 105, 103, 110, 111, 114, 101, 100, 32, 116, 97, 105, 108, 39, 93>>
\* "U.S. and U.K. leaders met"
Scenario2 == <<85, 46, 83, 46, 32, 97, 110, 100, 32, 85, 46, 75, 46, 32, 108, 101, 97, 100, 101, 114, 115, 32, 109, 101, 116>>
\* "caf(U+00E9)"
Scenario3 == <<99, 97, 102, 233>>
\* "[]"
OnlyBrackets == <<91, 93>>
\* "U.S.S.R. fell"
ScenarioUssr == <<85, 46, 83, 46, 83, 46, 82, 46, 32, 102, 101, 108, 108>>
\* "U.A.E. and E.U. and U.N. met"
ScenarioUae == <<85, 46, 65, 46, 69, 46, 32, 97, 110, 100, 32, 69, 46, 85, 46, 32, 97, 110, 100, 32, 85, 46, 78, 46, 32, 109, 101, 116>>
\* "Ab', 'the sensi', 'The Sensi', 'Ab"
ScenarioCase == <<65, 98, 39, 44, 32, 39, 116, 104, 101, 32, 115, 101, 110, 115, 105, 39, 44, 32, 39, 84, 104, 101, 32, 83, 101, 110, 115, 105, 39, 44, 32, 39, 65, 98>>

\* further contents, in this order:
\*  1. "It is the end'."
\*  2. "Ab. " + cookie_text + "Then it met"
\*  3. "Ab. " + cookie_text + "then it met"
\*  4. "Ab. " + cookie_text
\*  5. "Ab {x}) cd {y}) ef"
\*  6. "Ab. This site uses Akismet to reduce spam. Learn how your comment data is processed. Tail"
\*  7. "Ab. (c) 2021 Natural Gas Intelligence. All rights reserved. Tail", (c) being U+00A9
\*  8. "U.S."
\*  9. "Cost 3.5 e.g. The Dr. Smith met."
ScenarioTexts ==
    << <<73, 116, 32, 105, 115, 32, 116, 104, 101, 32, 101, 110, 100, 39, 46>>,
       <<65, 98, 46, 32>> \o cookie_text \o <<84, 104, 101, 110, 32, 105, 116, 32, 109, 101, 116>>,
       <<65, 98, 46, 32>> \o cookie_text \o <<116, 104, 101, 110, 32, 105, 116, 32, 109, 101, 116>>,
       <<65, 98, 46, 32>> \o cookie_text,
       <<65, 98, 32, 123, 120, 125, 41, 32, 99, 100, 32, 123, 121, 125, 41, 32, 101, 102>>,
       <<65, 98, 46, 32, 84, 104, 105, 115, 32, 115, 105, 116, 101, 32, 117, 115, 101, 115, 32, 65, 107, 105, 115, 109, 101, 116, 32, 116, 111, 32, 114, 101, 100, 117, 99, 101, 32, 115, 112, 97, 109, 46, 32, 76, 101, 97, 114, 110, 32, 104, 111, 119, 32, 121, 111, 117, 114, 32, 99, 111, 109, 109, 101, 110, 116, 32, 100, 97, 116, 97, 32, 105, 115, 32, 112, 114, 111, 99, 101, 115, 115, 101, 100, 46, 32, 84, 97, 105, 108>>,
       <<65, 98, 46, 32, 169, 32, 50, 48, 50, 49, 32, 78, 97, 116, 117, 114, 97, 108, 32, 71, 97, 115, 32, 73, 110, 116, 101, 108, 108, 105, 103, 101, 110, 99, 101, 46, 32, 65, 108, 108, 32, 114, 105, 103, 104, 116, 115, 32, 114, 101, 115, 101, 114, 118, 101, 100, 46, 32, 84, 97, 105, 108>>,
       <<85, 46, 83, 46>>,
       <<67, 111, 115, 116, 32, 51, 46, 53, 32, 101, 46, 103, 46, 32, 84, 104, 101, 32, 68, 114, 46, 32, 83, 109, 105, 116, 104, 32, 109, 101, 116, 46>> >>

Scenarios ==
    { Scenario1, Scenario2, Scenario3, OnlyBrackets, ScenarioUssr,
      ScenarioUae, ScenarioCase }
        \cup { ScenarioTexts[n] : n \in DOMAIN ScenarioTexts }

Contents == GeneratedContents \cup Scenarios

-----------------------------------------------------------------------------
(* clean_content as a state machine: one action per stage, applied twice, the
   second time to the result of the first *)

VARIABLES
    input,          \* the content string the first call is given
    content,        \* the argument of the current call
    run,            \* 1 for the first call, 2 for the call on its result
    pc,             \* the position in the code that is running
    sentences,      \* the local variable sentences
    cleaned_text,   \* the local variable cleaned_text
    ab_orig,        \* expander on its own: the text the loop starts with
    ab_text,        \* expander on its own: the text so far
    ab_todo,        \* expander on its own: the table entries not applied yet
    raw_file,       \* ../data/raw/cleantech_media_dataset_v2_2024-02-23.csv
    data,           \* the frame data
    data_cleaned,   \* the frame data_cleaned
    applied,        \* the values Series.apply has computed so far
    processed_file, \* ../data/processed/cleantech_processed.csv
    service,        \* the indexes of the Pinecone project: name, dimension, vectors
    call,           \* the arguments of initialize_pinecone_index and upsert_embeddings
    embeddings,     \* the rows of the frame given to upsert_embeddings
    is_new_index,   \* the flag initialize_pinecone_index returns
    records,        \* the local variable records of upsert_embeddings
    upserts,        \* the batches pinecone_index.upsert was called with, in order
    retrieved_chunks,     \* the matches of the query response
    additional_criteria,  \* the argument additional_criteria
    reranked_chunks,      \* what rerank_results returned
    chunks,         \* the argument chunks of generate_answer
    context,        \* the local variable context
    chat_calls,     \* the calls of client.chat.completions.create, in order
    answer,         \* what generate_answer returned
    data_eval,      \* the frame data_eval
    results,        \* the local variable results of evaluate_pipeline
    generated_answer,    \* the local variable generated_answer of evaluate_example
    eval_calls,          \* the calls evaluate_example made, in order
    evaluation_results,  \* the notebook variable evaluation_results
    results_file    \* ../data/recursive_1000_chunksize_0_overlap_text_embedding_ada_002.csv

abvars == << ab_orig, ab_text, ab_todo >>

\* the variables of clean_content and of the abbreviation loop
ccvars == << input, content, run, sentences, cleaned_text, abvars >>

\* the variables of the preprocessing driver
drvars == << raw_file, data, data_cleaned, applied, processed_file >>

\* the variables of the Pinecone setup
pnvars == << service, call, embeddings, is_new_index, records, upserts >>

\* the variables of the retriever
rkvars == << retrieved_chunks, additional_criteria, reranked_chunks >>

\* the variables of the generator
gavars == << chunks, context, chat_calls, answer >>

\* the variables of the evaluation
evvars == << data_eval, results, generated_answer, eval_calls, evaluation_results,
             results_file >>

\* what clean_content leaves alone
sidevars == << drvars, pnvars, rkvars, gavars, evvars >>

vars == << ccvars, pc, sidevars >>

\* Python's None
None == [kind |-> "None"]

\* the variables of a part of the program before that part has run: of
\* clean_content with the abbreviation loop, of the preprocessing driver, of
\* the Pinecone setup, of the retriever, of the generator, of the evaluation
Idle(part) ==
    CASE part = "cleaner" ->
            /\ input = <<>>
            /\ content = <<>>
            /\ run = 1
            /\ sentences = <<>>
            /\ cleaned_text = <<>>
            /\ ab_orig = <<>>
            /\ ab_text = <<>>
            /\ ab_todo = {}
      [] part = "driver" ->
            /\ raw_file = None
            /\ data = None
            /\ data_cleaned = None
            /\ applied = <<>>
            /\ processed_file = None
      [] part = "pinecone" ->
            /\ service = {}
            /\ call = None
            /\ embeddings = <<>>
            /\ is_new_index = FALSE
            /\ records = <<>>
            /\ upserts = <<>>
      [] part = "retriever" ->
            /\ retrieved_chunks = <<>>
            /\ additional_criteria = None
            /\ reranked_chunks = <<>>
      [] part = "generator" ->
            /\ chunks = <<>>
            /\ context = <<>>
            /\ chat_calls = <<>>
            /\ answer = None
      [] part = "evaluation" ->
            /\ data_eval = <<>>
            /\ results = None
            /\ generated_answer = None
            /\ eval_calls = <<>>
            /\ evaluation_results = None
            /\ results_file = None

Init ==
    /\ input \in Contents
    /\ content = input
    /\ run = 1
    /\ pc = "start"
    /\ sentences = <<>>
    /\ cleaned_text = <<>>
    /\ ab_orig = <<>>
    /\ ab_text = <<>>
    /\ ab_todo = {}
    /\ Idle("driver")
    /\ Idle("pinecone")
    /\ Idle("retriever")
    /\ Idle("generator")
    /\ Idle("evaluation")

\* content.strip("[]") and re.split
DoSegment ==
    /\ pc = "start"
    /\ sentences' = Segment(content)
    /\ pc' = "split"
    /\ UNCHANGED << input, content, run, cleaned_text, abvars, sidevars >>

\* the banner test reads sentences[0], an IndexError on an empty list
DoDropBanner ==
    /\ pc = "split"
    /\ IF Len(sentences) = 0
       THEN pc' = "raised" /\ UNCHANGED sentences
       ELSE pc' = "banner" /\ sentences' = DropBanner(sentences)
    /\ UNCHANGED << input, content, run, cleaned_text, abvars, sidevars >>

\* the stop phrase loop
DoTruncate ==
    /\ pc = "banner"
    /\ sentences' = TruncateAtStopPhrase(sentences)
    /\ pc' = "trunc"
    /\ UNCHANGED << input, content, run, cleaned_text, abvars, sidevars >>

\* the join and the regular expression clean-up
DoStrip ==
    /\ pc = "trunc"
    /\ cleaned_text' = StripArtifacts(sentences)
    /\ pc' = "stripped"
    /\ UNCHANGED << input, content, run, sentences, abvars, sidevars >>

\* the abbreviation loop
DoExpand ==
    /\ pc = "stripped"
    /\ cleaned_text' = ExpandAbbreviations(cleaned_text)
    /\ pc' = "expanded"
    /\ UNCHANGED << input, content, run, sentences, abvars, sidevars >>

\* the literal replacements, the period clean-up, the cookie sentence, return
DoFinish ==
    /\ pc = "expanded"
    /\ cleaned_text' = Finish(cleaned_text)
    /\ pc' = "done"
    /\ UNCHANGED << input, content, run, sentences, abvars, sidevars >>

\* clean_content is called again on what it returned
Rerun ==
    /\ pc = "done"
    /\ run = 1
    /\ content' = cleaned_text
    /\ run' = 2
    /\ pc' = "start"
    /\ sentences' = <<>>
    /\ cleaned_text' = <<>>
    /\ UNCHANGED << input, abvars, sidevars >>

Next ==
    \/ DoSegment
    \/ DoDropBanner
    \/ DoTruncate
    \/ DoStrip
    \/ DoExpand
    \/ DoFinish
    \/ Rerun

Spec == Init /\ [][Next]_vars

-----------------------------------------------------------------------------
(* The abbreviation loop on its own, its six replacements taken in any order *)

\* largest number of pieces in a text given to the loop
MaxAbbrToks == 2

\* the six abbreviations, "E.", "S.R. " and " x"
AbbrToks ==
    { abbreviations[n].abbr : n \in 1..Len(abbreviations) }
        \cup { <<69, 46>>, <<83, 46, 82, 46, 32>>, <<32, 120>> }

AbbrTexts ==
    { Join(ts, <<>>) : ts \in UNION { [1..n -> AbbrToks] : n \in 0..MaxAbbrToks } }

InitAbbr ==
    /\ input = <<>>
    /\ content = <<>>
    /\ run = 1
    /\ pc = "expander"
    /\ sentences = <<>>
    /\ cleaned_text = <<>>
    /\ ab_orig \in AbbrTexts
    /\ ab_text = ab_orig
    /\ ab_todo = 1..Len(abbreviations)
    /\ Idle("driver")
    /\ Idle("pinecone")
    /\ Idle("retriever")
    /\ Idle("generator")
    /\ Idle("evaluation")

\* one turn of the loop body, cleaned_text.replace(abbr, full), for an entry
\* that has not had its turn
ApplyOne ==
    \E n \in ab_todo :
        /\ ab_text' = Replace(ab_text, abbreviations[n].abbr, abbreviations[n].full)
        /\ ab_todo' = ab_todo \ {n}
        /\ UNCHANGED << input, content, run, pc, sentences, cleaned_text, ab_orig, sidevars >>

NextAbbr == ApplyOne

SpecAbbr == InitAbbr /\ [][NextAbbr]_vars

-----------------------------------------------------------------------------
(* The preprocessing driver: load the raw corpus, copy it, drop the author
   column, apply clean_content to the content column, save the result *)

\* largest number of articles in the raw corpus
MaxRows == 2

\* a Python str
Str(t) == [kind |-> "str", val |-> t]

\* the float NaN that pandas puts in a cell without a value
NaN == [kind |-> "float", val |-> <<>>]

\* the raw files of at most MaxRows articles.  The header has the index
\* column and the six attributes; line n has the index n - 1, a title ("Ta"
\* or the empty field), the date "2021", no author, a content ("Ab", "[]",
\* "U.S. and U.K. leaders met" or the empty field), the domain "d" and the
\* url "u".
RawFiles ==
    LET RawColumns ==
            << "index_col", "title", "date", "author", "content", "domain", "url" >>
        RowContents == { <<65, 98>>, OnlyBrackets, Scenario2, <<>> }
        RowTitles == { <<84, 97>>, <<>> }
        RawRow(n, title, text) ==
            [ index_col |-> << 47 + n >>, title |-> title, date |-> <<50, 48, 50, 49>>,
              author |-> <<>>, content |-> text, domain |-> <<100>>, url |-> <<117>> ]
    IN  UNION { { [ columns |-> RawColumns,
                    rows |-> [ n \in 1..k |-> RawRow(n, ts[n], cs[n]) ] ] :
                  ts \in [1..k -> RowTitles], cs \in [1..k -> RowContents] } :
                k \in 0..MaxRows }

\* pd.read_csv(path, index_col=0).reset_index(drop=True): the first column
\* becomes the index and is dropped; of the other columns an empty field is
\* read as NaN and any other field as a str
ReadCsv(file) ==
    LET ParseCell(text) == IF text = <<>> THEN NaN ELSE Str(text)
    IN  [ columns |-> Tail(file.columns),
          rows |-> [ n \in 1..Len(file.rows) |->
                       [ c \in { file.columns[j] : j \in 2..Len(file.columns) } |->
                           ParseCell(file.rows[n][c]) ] ] ]

\* frame.copy(): a frame of its own with the same columns and values
Copy(frame) == [ columns |-> frame.columns, rows |-> frame.rows ]

\* frame.drop(columns=cols)
DropColumns(frame, cols) ==
    LET Kept(c) == c \notin cols
        kept == SelectSeq(frame.columns, Kept)
    IN  [ columns |-> kept,
          rows |-> [ n \in 1..Len(frame.rows) |->
                       [ c \in { kept[j] : j \in 1..Len(kept) } |-> frame.rows[n][c] ] ] ]

\* variant of CleanValue: a value that is no str is kept as it is, nothing
\* is raised
CleanValue_isolated(v) ==
    IF v.kind = "str"
    THEN [ raised |-> FALSE, value |-> Str(clean_content(v.val)) ]
    ELSE [ raised |-> FALSE, value |-> v ]

\* clean_content(v) for one value of the column: content.strip of a value
\* that is no str raises AttributeError
CleanValue(v) ==
    IF v.kind = "str"
    THEN [ raised |-> FALSE, value |-> Str(clean_content(v.val)) ]
    ELSE [ raised |-> TRUE, value |-> v ]

\* variant of AssignContent: the articles whose new content is empty are
\* left out
AssignContent_dropEmpty(frame, values) ==
    LET all == [ n \in 1..Len(frame.rows) |->
                   [ frame.rows[n] EXCEPT !["content"] = values[n] ] ]
        NotEmpty(r) == r["content"] # Str(<<>>)
    IN  [ columns |-> frame.columns, rows |-> SelectSeq(all, NotEmpty) ]

\* frame["content"] = values
AssignContent(frame, values) ==
    [ columns |-> frame.columns,
      rows |-> [ n \in 1..Len(frame.rows) |->
                   [ frame.rows[n] EXCEPT !["content"] = values[n] ] ] ]

\* frame.to_csv(path, index=False): the header and one line per row, without
\* the index; NaN is written as an empty field and a str as its text
ToCsv(frame) ==
    LET FormatCell(v) == IF v.kind = "str" THEN v.val ELSE <<>>
    IN  [ columns |-> frame.columns,
          rows |-> [ n \in 1..Len(frame.rows) |->
                       [ c \in DOMAIN frame.rows[n] |-> FormatCell(frame.rows[n][c]) ] ] ]

InitDriver ==
    /\ pc = "d_start"
    /\ raw_file \in RawFiles
    /\ data = None
    /\ data_cleaned = None
    /\ applied = <<>>
    /\ processed_file = None
    /\ Idle("cleaner")
    /\ Idle("pinecone")
    /\ Idle("retriever")
    /\ Idle("generator")
    /\ Idle("evaluation")

\* data = pd.read_csv(...).reset_index(drop=True)
DrvLoad ==
    /\ pc = "d_start"
    /\ data' = ReadCsv(raw_file)
    /\ pc' = "d_loaded"
    /\ UNCHANGED << evvars, ccvars, raw_file, data_cleaned, applied, processed_file,
                    pnvars, rkvars, gavars >>

\* data_cleaned = data.copy(); data_cleaned = data_cleaned.drop(columns=["author"])
DrvCopy ==
    /\ pc = "d_loaded"
    /\ data_cleaned' = DropColumns(Copy(data), {"author"})
    /\ pc' = "d_copied"
    /\ UNCHANGED << evvars, ccvars, raw_file, data, applied, processed_file,
                    pnvars, rkvars, gavars >>

\* Series.apply calls clean_content on the next value of the column; what
\* clean_content raises leaves apply and ends the cell
DrvApply ==
    /\ pc = "d_copied"
    /\ Len(applied) < Len(data_cleaned.rows)
    /\ \E r \in { CleanValue(data_cleaned.rows[Len(applied) + 1]["content"]) } :
          IF r.raised
          THEN pc' = "d_raised" /\ UNCHANGED applied
          ELSE pc' = pc /\ applied' = Append(applied, r.value)
    /\ UNCHANGED << evvars, ccvars, raw_file, data, data_cleaned, processed_file,
                    pnvars, rkvars, gavars >>

\* data_cleaned["content"] = the Series apply returned
DrvAssign ==
    /\ pc = "d_copied"
    /\ Len(applied) = Len(data_cleaned.rows)
    /\ data_cleaned' = AssignContent(data_cleaned, applied)
    /\ pc' = "d_assigned"
    /\ UNCHANGED << evvars, ccvars, raw_file, data, applied, processed_file,
                    pnvars, rkvars, gavars >>

\* data_cleaned.to_csv('../data/processed/cleantech_processed.csv', index=False)
DrvSave ==
    /\ pc = "d_assigned"
    /\ processed_file' = ToCsv(data_cleaned)
    /\ pc' = "d_saved"
    /\ UNCHANGED << evvars, ccvars, raw_file, data, data_cleaned, applied,
                    pnvars, rkvars, gavars >>

NextDriver ==
    \/ DrvLoad
    \/ DrvCopy
    \/ DrvApply
    \/ DrvAssign
    \/ DrvSave

SpecDriver == InitDriver /\ [][NextDriver]_vars

-----------------------------------------------------------------------------
(* The Pinecone setup: initialize_pinecone_index, upsert_embeddings and the
   Example Usage cell that calls them *)

\* largest number of rows in the frame given to upsert_embeddings
MaxEmbRows == 2

\* a Python int
PyInt(n) == [kind |-> "int", val |-> n]

\* index_name of the Example Usage cell
index_name == "npr-mc1-1"

\* dimension of the Example Usage cell
dimension == 1572

\* the length of a vector of text-embedding-ada-002, the model whose
\* embeddings the notebook loads
AdaDimension == 1536

\* the frames given to upsert_embeddings: with or without a column 'index',
\* row n having the label n - 1, the value 100 + n in the column 'index',
\* the chunk text "Ab", and as its embedding a list of floats of either
\* length, a list one of whose values is no float, or a value that is no list
EmbeddingFrames ==
    LET FloatList(n) == [kind |-> "list", len |-> n, floats |-> TRUE]
        EmbeddingValues ==
            { FloatList(AdaDimension), FloatList(dimension),
              [kind |-> "list", len |-> AdaDimension, floats |-> FALSE],
              [kind |-> "ndarray", len |-> AdaDimension, floats |-> TRUE] }
    IN  UNION { { [ index_column |-> ic,
                    rows |-> [ n \in 1..k |->
                                 [ idx |-> n - 1, index |-> 100 + n,
                                   embeddings |-> es[n], content_chunks |-> <<65, 98>> ] ] ] :
                  ic \in BOOLEAN, es \in [1..k -> EmbeddingValues] } :
                k \in 0..MaxEmbRows }

\* the call of the Example Usage cell
SetupCall ==
    [ index_name |-> index_name, dimension |-> PyInt(dimension),
      create_if_not_exists |-> TRUE, batch_size |-> 100 ]

\* the calls: that of the Example Usage cell and calls with other arguments
Calls ==
    { SetupCall }
        \cup [ index_name : { index_name }, dimension : { None, PyInt(AdaDimension) },
               create_if_not_exists : BOOLEAN, batch_size : { 1, 2 } ]

\* the states of the Pinecone project before the call: no index, the index
\* of the setup, or another index; an index has a name, a dimension and the
\* vectors stored in it
Services ==
    { {},
      { [ name |-> index_name, dimension |-> AdaDimension, vectors |-> {} ] },
      { [ name |-> "other", dimension |-> AdaDimension, vectors |-> {} ] } }

\* [index.name for index in pc.list_indexes()]
existing_indexes(svc) == { ix.name : ix \in svc }

\* str(n) for a natural number n: its decimal digits
RECURSIVE ToStr(_)
ToStr(n) == IF n < 10 THEN << 48 + n >> ELSE ToStr(n \div 10) \o << 48 + (n % 10) >>

\* variant of initialize_pinecone_index: the flag is set on every return
initialize_pinecone_index_flagAlways(svc, c) ==
    IF c.index_name \notin existing_indexes(svc)
    THEN IF c.create_if_not_exists
         THEN IF c.dimension = None
              THEN [ raised |-> "ValueError", service |-> svc, is_new_index |-> FALSE ]
              ELSE [ raised |-> "",
                     service |-> svc \cup { [ name |-> c.index_name,
                                              dimension |-> c.dimension.val,
                                              vectors |-> {} ] },
                     is_new_index |-> TRUE ]
         ELSE [ raised |-> "ValueError", service |-> svc, is_new_index |-> FALSE ]
    ELSE [ raised |-> "", service |-> svc, is_new_index |-> TRUE ]

\* variant of initialize_pinecone_index: create_if_not_exists is not read
initialize_pinecone_index_createAnyway(svc, c) ==
    IF c.index_name \notin existing_indexes(svc)
    THEN IF c.dimension = None
         THEN [ raised |-> "ValueError", service |-> svc, is_new_index |-> FALSE ]
         ELSE [ raised |-> "",
                service |-> svc \cup { [ name |-> c.index_name,
                                         dimension |-> c.dimension.val,
                                         vectors |-> {} ] },
                is_new_index |-> TRUE ]
    ELSE [ raised |-> "", service |-> svc, is_new_index |-> FALSE ]

\* initialize_pinecone_index: what is raised, the indexes of the project
\* afterwards, and the flag returned
initialize_pinecone_index(svc, c) ==
    IF c.index_name \notin existing_indexes(svc)
    THEN IF c.create_if_not_exists
         THEN IF c.dimension = None
              THEN [ raised |-> "ValueError", service |-> svc, is_new_index |-> FALSE ]
              ELSE [ raised |-> "",
                     service |-> svc \cup { [ name |-> c.index_name,
                                              dimension |-> c.dimension.val,
                                              vectors |-> {} ] },
                     is_new_index |-> TRUE ]
         ELSE [ raised |-> "ValueError", service |-> svc, is_new_index |-> FALSE ]
    ELSE [ raised |-> "", service |-> svc, is_new_index |-> FALSE ]

\* isinstance(embedding, list) and all(isinstance(value, float) for value in embedding)
IsValidEmbedding(e) == e.kind = "list" /\ e.floats

\* the loop over embeddings.iterrows(): one record for each row whose
\* embedding is valid, in the order of the rows
Validated(frame) ==
    LET Valid(row) == IsValidEmbedding(row.embeddings)
        rows == SelectSeq(frame.rows, Valid)
    IN  [ n \in 1..Len(rows) |->
            [ id |-> ToStr(IF frame.index_column THEN rows[n].index ELSE rows[n].idx),
              values |-> rows[n].embeddings,
              metadata |-> [ text |-> rows[n].content_chunks ] ] ]

\* variant of upsert_embeddings_start: is_new_index is not read
upsert_embeddings_start_noGuard(frame, flag) ==
    [ returned |-> FALSE, records |-> Validated(frame) ]

\* upsert_embeddings up to its batch loop: it returns at once when
\* is_new_index is false, and prepares the records when it is true
upsert_embeddings_start(frame, flag) ==
    IF ~flag
    THEN [ returned |-> TRUE, records |-> << >> ]
    ELSE [ returned |-> FALSE, records |-> Validated(frame) ]

\* the number of turns of: for i in range(0, len(records), batch_size)
BatchCount(recs, batch_size) == (Len(recs) + batch_size - 1) \div batch_size

\* records[i:i + batch_size] in turn k of the loop, i = (k - 1) * batch_size
Batch(recs, batch_size, k) ==
    SubSeq(recs, (k - 1) * batch_size + 1,
           IF k * batch_size < Len(recs) THEN k * batch_size ELSE Len(recs))

\* the service takes a batch when each of its vectors has the dimension of
\* the index
Accepts(ix, batch) ==
    \A n \in 1..Len(batch) : batch[n].values.len = ix.dimension

\* the index after an upsert that the service took: a vector replaces the
\* stored vector of the same id
Upserted(ix, batch) ==
    LET new == { batch[n] : n \in 1..Len(batch) }
        ids == { r.id : r \in new }
    IN  [ ix EXCEPT !.vectors = { v \in ix.vectors : v.id \notin ids } \cup new ]

InitPinecone ==
    /\ pc = "p_start"
    /\ service \in Services
    /\ call \in Calls
    /\ embeddings \in EmbeddingFrames
    /\ is_new_index = FALSE
    /\ records = << >>
    /\ upserts = << >>
    /\ Idle("cleaner")
    /\ Idle("driver")
    /\ Idle("retriever")
    /\ Idle("generator")
    /\ Idle("evaluation")

\* initialize_pinecone_index: ValueError, or the pair it returns
PnInitialize ==
    /\ pc = "p_start"
    /\ LET o == initialize_pinecone_index(service, call)
       IN  IF o.raised # ""
           THEN pc' = "p_ValueError" /\ UNCHANGED << service, is_new_index >>
           ELSE /\ pc' = "p_connected"
                /\ service' = o.service
                /\ is_new_index' = o.is_new_index
    /\ UNCHANGED << evvars, ccvars, drvars, call, embeddings, records, upserts, rkvars, gavars >>

\* upsert_embeddings up to its batch loop
PnPrepare ==
    /\ pc = "p_connected"
    /\ LET o == upsert_embeddings_start(embeddings, is_new_index)
       IN  /\ records' = o.records
           /\ pc' = IF o.returned THEN "p_done" ELSE "p_upserting"
    /\ UNCHANGED << evvars, ccvars, drvars, service, call, embeddings, is_new_index, upserts,
                    rkvars, gavars >>

\* variant of PnUpsertBatch: an exception of the call is not caught, it ends
\* upsert_embeddings
PnUpsertBatch_propagate ==
    /\ pc = "p_upserting"
    /\ Len(upserts) < BatchCount(records, call.batch_size)
    /\ LET batch == Batch(records, call.batch_size, Len(upserts) + 1)
       IN  /\ upserts' = Append(upserts, batch)
           /\ \E reachable \in BOOLEAN :
                /\ service' =
                     { IF ix.name = call.index_name /\ reachable /\ Accepts(ix, batch)
                       THEN Upserted(ix, batch) ELSE ix : ix \in service }
                /\ pc' = IF \E ix \in service : /\ ix.name = call.index_name
                                                /\ reachable /\ Accepts(ix, batch)
                         THEN pc ELSE "p_ApiError"
    /\ UNCHANGED << evvars, ccvars, drvars, call, embeddings, is_new_index, records,
                    rkvars, gavars >>

\* one turn of the batch loop: pinecone_index.upsert(vectors=batch); an
\* exception of the call is caught and printed
PnUpsertBatch ==
    /\ pc = "p_upserting"
    /\ Len(upserts) < BatchCount(records, call.batch_size)
    /\ LET batch == Batch(records, call.batch_size, Len(upserts) + 1)
       IN  /\ upserts' = Append(upserts, batch)
           /\ \E reachable \in BOOLEAN :
                service' =
                    { IF ix.name = call.index_name /\ reachable /\ Accepts(ix, batch)
                      THEN Upserted(ix, batch) ELSE ix : ix \in service }
    /\ UNCHANGED << evvars, ccvars, drvars, pc, call, embeddings, is_new_index, records,
                    rkvars, gavars >>

\* the batch loop has ended and upsert_embeddings returns
PnReturn ==
    /\ pc = "p_upserting"
    /\ Len(upserts) = BatchCount(records, call.batch_size)
    /\ pc' = "p_done"
    /\ UNCHANGED << evvars, ccvars, drvars, pnvars, rkvars, gavars >>

NextPinecone ==
    \/ PnInitialize
    \/ PnPrepare
    \/ PnUpsertBatch
    \/ PnReturn

SpecPinecone == InitPinecone /\ [][NextPinecone]_vars

\* the Example Usage cell is run again with the same arguments, after it has
\* ended, has raised, or was stopped on its way: the project keeps its
\* indexes, the variables of the functions start afresh
PnRunAgain ==
    /\ pc \in { "p_connected", "p_upserting", "p_done", "p_ValueError" }
    /\ pc' = "p_start"
    /\ is_new_index' = FALSE
    /\ records' = << >>
    /\ upserts' = << >>
    /\ UNCHANGED << evvars, ccvars, drvars, service, call, embeddings, rkvars, gavars >>

NextPineconeRuns ==
    \/ NextPinecone
    \/ PnRunAgain

\* any sequence of runs of the cell: a run that can go on does go on, the
\* cell is run again and again, and an upsert that the service would take
\* again and again is taken at some time
SpecPineconeRuns ==
    /\ InitPinecone
    /\ [][NextPineconeRuns]_vars
    /\ SF_vars(PnInitialize)
    /\ SF_vars(PnPrepare)
    /\ SF_vars(PnUpsertBatch)
    /\ SF_vars(PnUpsertBatch /\ service' # service)
    /\ SF_vars(PnReturn)
    /\ SF_vars(PnRunAgain)

-----------------------------------------------------------------------------
(* The retriever: rerank_results and retrieve_relevant_chunks *)

\* largest number of matches in a query response
MaxMatches == 3

\* the attribute matches of the response of pinecone_index.query: the match
\* in place n has the id n, a similarity score of 0.85 or 0.90 (in
\* hundredths), and metadata with the chunk text "Ab", with or without a
\* relevance_score of 0.10
MatchLists ==
    LET MatchesAt(n) ==
            { [ id |-> n, score |-> s, metadata |-> md ] :
                s \in { 85, 90 },
                md \in { [ text |-> <<65, 98>> ],
                         [ text |-> <<65, 98>>, relevance_score |-> 10 ] } }
    IN  UNION { { ms \in [1..k -> UNION { MatchesAt(n) : n \in 1..k }] :
                    \A n \in 1..k : ms[n] \in MatchesAt(n) } :
                k \in 0..MaxMatches }

\* the functions given as additional_criteria: an additional score of 0 or
\* 0.20 for each chunk, by its id
Criteria ==
    { [ kind |-> "function", score |-> f ] : f \in [1..MaxMatches -> { 0, 20 }] }

\* dict.get(key, default)
Get(dict, key, default) == IF key \in DOMAIN dict THEN dict[key] ELSE default

\* variant of custom_ranking: the similarity score alone
custom_ranking_scoreOnly(chunk) == chunk.score

\* the inner function custom_ranking of rerank_results
custom_ranking(chunk) == chunk.score + Get(chunk.metadata, "relevance_score", 0)

\* the indices 1..n of the keys in sorted order: index n is put in the
\* order of the indices before it, in front of the first one with a smaller
\* key
RECURSIVE SortedIndices(_, _)
SortedIndices(n, keys) ==
    IF n = 0 THEN << >>
    ELSE LET prev == SortedIndices(n - 1, keys)
             smaller == { p \in 1..Len(prev) : keys[prev[p]] < keys[n] }
             at == IF smaller = {} THEN Len(prev) + 1
                   ELSE CHOOSE p \in smaller : \A q \in smaller : p <= q
         IN  SubSeq(prev, 1, at - 1) \o << n >> \o SubSeq(prev, at, Len(prev))

\* sorted(xs, key=..., reverse=True), keys[n] being the key of xs[n]: the
\* larger key first, equal keys in the order they have in xs
SortedReverse(xs, keys) ==
    LET order == SortedIndices(Len(xs), keys)
    IN  [ p \in 1..Len(xs) |-> xs[order[p]] ]

\* rerank_results: additional_criteria is a parameter that the body does not
\* read
rerank_results(matches, criteria) ==
    SortedReverse(matches, [ n \in 1..Len(matches) |-> custom_ranking(matches[n]) ])

InitRetriever ==
    /\ pc = "r_start"
    /\ retrieved_chunks \in MatchLists
    /\ additional_criteria = None
    /\ reranked_chunks = << >>
    /\ Idle("cleaner")
    /\ Idle("driver")
    /\ Idle("pinecone")
    /\ Idle("generator")
    /\ Idle("evaluation")

\* retrieve_relevant_chunks after the query: it returns
\* rerank_results(results, additional_criteria=None)
RkRetrieve ==
    /\ pc = "r_start"
    /\ reranked_chunks' = rerank_results(retrieved_chunks, None)
    /\ pc' = "r_returned"
    /\ UNCHANGED << evvars, ccvars, drvars, pnvars, retrieved_chunks, additional_criteria, gavars >>

\* rerank_results called with a function as additional_criteria
RkRerankWith ==
    /\ pc = "r_start"
    /\ \E f \in Criteria :
          /\ additional_criteria' = f
          /\ reranked_chunks' = rerank_results(retrieved_chunks, f)
    /\ pc' = "r_returned"
    /\ UNCHANGED << evvars, ccvars, drvars, pnvars, retrieved_chunks, gavars >>

NextRetriever ==
    \/ RkRetrieve
    \/ RkRerankWith

SpecRetriever == InitRetriever /\ [][NextRetriever]_vars

-----------------------------------------------------------------------------
(* The generator: generate_answer *)

\* largest number of chunks given to generate_answer
MaxChunks == 3

\* the lists of chunks: a chunk is without metadata, with metadata without
\* text, or with the text "", " \n" or "Ab"
ChunkLists ==
    LET ChunkForms ==
        { [ id |-> 1 ],
          [ id |-> 1, metadata |-> [ source |-> <<115>> ] ],
          [ id |-> 1, metadata |-> [ text |-> << >> ] ],
          [ id |-> 1, metadata |-> [ text |-> << 32, 10 >> ] ],
          [ id |-> 1, metadata |-> [ text |-> <<65, 98>> ] ] }
    IN  UNION { [1..k -> ChunkForms] : k \in 0..MaxChunks }

\* the message contents the chat completion answers with: "Yes", " Yes ",
\* "Why?", "" and " "
Replies ==
    { <<89, 101, 115>>, <<32, 89, 101, 115, 32>>, <<87, 104, 121, 63>>, << >>, <<32>> }

\* "The provided context does not contain sufficient information to answer
\*  the query."
InsufficientContext == <<84, 104, 101, 32, 112, 114, 111, 118, 105, 100, 101, 100, 32, 99, 111, 110, 116, 101, 120, 116, 32, 100, 111, 101, 115, 32, 110, 111, 116, 32, 99, 111, 110, 116, 97, 105, 110, 32, 115, 117, 102, 102, 105, 99, 105, 101, 110, 116, 32, 105, 110, 102, 111, 114, 109, 97, 116, 105, 111, 110, 32, 116, 111, 32, 97, 110, 115, 119, 101, 114, 32, 116, 104, 101, 32, 113, 117, 101, 114, 121, 46>>

\* " ".join(chunk.get('metadata', {}).get('text', '') for chunk in chunks)
ComposeContext(cs) ==
    Join([ n \in 1..Len(cs) |->
             IF "metadata" \in DOMAIN cs[n]
             THEN Get(cs[n].metadata, "text", << >>) ELSE << >> ],
         << 32 >>)

\* variant of ContextIsEmpty: if not context
ContextIsEmpty_noStrip(ctx) == ctx = << >>

\* if not context.strip()
ContextIsEmpty(ctx) == StripWs(ctx) = << >>

\* FinishAnswer without the added period
FinishAnswer_noPeriod(reply) == StripWs(reply)

\* answer = content.strip(), with "." added when it is not empty and does
\* not end in ".", "?" or "!"
FinishAnswer(reply) ==
    LET a == StripWs(reply)
    IN  IF a # << >> /\ a[Len(a)] \notin { 46, 63, 33 } THEN a \o << 46 >> ELSE a

InitGenerator ==
    /\ pc = "g_start"
    /\ chunks \in ChunkLists
    /\ context = << >>
    /\ chat_calls = << >>
    /\ answer = None
    /\ Idle("cleaner")
    /\ Idle("driver")
    /\ Idle("pinecone")
    /\ Idle("retriever")
    /\ Idle("evaluation")

\* the context is composed
GaCompose ==
    /\ pc = "g_start"
    /\ context' = ComposeContext(chunks)
    /\ pc' = "g_context"
    /\ UNCHANGED << evvars, ccvars, drvars, pnvars, rkvars, chunks, chat_calls, answer >>

\* the context is empty: the fixed message is returned
GaReturnFixed ==
    /\ pc = "g_context"
    /\ ContextIsEmpty(context)
    /\ answer' = Str(InsufficientContext)
    /\ pc' = "g_returned"
    /\ UNCHANGED << evvars, ccvars, drvars, pnvars, rkvars, chunks, context, chat_calls >>

\* client.chat.completions.create is called with the context
GaCall ==
    /\ pc = "g_context"
    /\ ~ContextIsEmpty(context)
    /\ chat_calls' = Append(chat_calls, [ context |-> context ])
    /\ pc' = "g_called"
    /\ UNCHANGED << evvars, ccvars, drvars, pnvars, rkvars, chunks, context, answer >>

\* the call returns a completion and the answer is finished and returned
GaAnswer ==
    /\ pc = "g_called"
    /\ \E reply \in Replies : answer' = Str(FinishAnswer(reply))
    /\ pc' = "g_returned"
    /\ UNCHANGED << evvars, ccvars, drvars, pnvars, rkvars, chunks, context, chat_calls >>

\* the call raises and its exception leaves generate_answer
GaCallRaises ==
    /\ pc = "g_called"
    /\ pc' = "g_ApiError"
    /\ UNCHANGED << evvars, ccvars, drvars, pnvars, rkvars, gavars >>

NextGenerator ==
    \/ GaCompose
    \/ GaReturnFixed
    \/ GaCall
    \/ GaAnswer
    \/ GaCallRaises

SpecGenerator == InitGenerator /\ [][NextGenerator]_vars

-----------------------------------------------------------------------------
(* The evaluation: evaluate_pipeline calls evaluate_example for every row of
   data_eval, and the next cell saves the frame it returned.  A row of the
   result keeps the question, the ground truth and the generated answer; the
   contexts and the scores, which are functions of these, are left out. *)

\* largest number of examples in data_eval
MaxExamples == 2

\* the kernel has run the cells before the evaluation: data_eval holds at
\* most MaxExamples examples with the questions "Q1" and "Q2" (two examples
\* may share a question) and the answers "A1" and NaN, the cell without a
\* value; evaluate_pipeline has set results = []
InitEvaluate ==
    /\ pc = "e_loop"
    /\ data_eval \in
         LET Examples == { [ question |-> q, answer |-> a ] :
                             q \in { <<81, 49>>, <<81, 50>> },
                             a \in { Str(<<65, 49>>), NaN } }
         IN  UNION { [1..k -> Examples] : k \in 0..MaxExamples }
    /\ results = <<>>
    /\ generated_answer = None
    /\ eval_calls = <<>>
    /\ evaluation_results = None
    /\ results_file = None
    /\ Idle("cleaner")
    /\ Idle("driver")
    /\ Idle("pinecone")
    /\ Idle("retriever")
    /\ Idle("generator")

\* iterrows yields the next row and evaluate_example calls
\* pipeline.retrieve_relevant_chunks, which returns or raises
EvRetrieve ==
    /\ pc = "e_loop"
    /\ Len(results) < Len(data_eval)
    /\ eval_calls' = Append(eval_calls, << Len(results) + 1, "retrieve" >>)
    /\ \/ pc' = "e_generate" /\ UNCHANGED results
       \/ pc' = "e_ApiError" /\ results' = None
    /\ UNCHANGED << ccvars, drvars, pnvars, rkvars, gavars, data_eval, generated_answer,
                    evaluation_results, results_file >>

\* pipeline.generate_answer returns the finished reply or raises
EvGenerate ==
    /\ pc = "e_generate"
    /\ eval_calls' = Append(eval_calls, << Len(results) + 1, "generate" >>)
    /\ \/ /\ \E reply \in Replies : generated_answer' = Str(FinishAnswer(reply))
          /\ pc' = "e_embed_true"
          /\ UNCHANGED results
       \/ /\ pc' = "e_ApiError"
          /\ results' = None
          /\ UNCHANGED generated_answer
    /\ UNCHANGED << ccvars, drvars, pnvars, rkvars, gavars, data_eval,
                    evaluation_results, results_file >>

\* EvEmbed with a second try: a call that raised is made again
EvEmbed_retry ==
    /\ pc \in { "e_embed_true", "e_embed_generated" }
    /\ eval_calls' = Append(eval_calls,
                            << Len(results) + 1,
                               IF pc = "e_embed_true" THEN "embed_true"
                                                      ELSE "embed_generated" >>)
    /\ \/ pc' = IF pc = "e_embed_true" THEN "e_embed_generated" ELSE "e_score"
       \/ pc' = IF Len(eval_calls) < 4 * Len(data_eval) THEN pc ELSE "e_ApiError"
    /\ IF pc' = "e_ApiError"
       THEN results' = None /\ generated_answer' = None
       ELSE UNCHANGED << results, generated_answer >>
    /\ UNCHANGED << ccvars, drvars, pnvars, rkvars, gavars, data_eval,
                    evaluation_results, results_file >>

\* generate_embeddings of the true answer, then of the generated answer; the
\* call returns or raises
EvEmbed ==
    /\ pc \in { "e_embed_true", "e_embed_generated" }
    /\ eval_calls' = Append(eval_calls,
                            << Len(results) + 1,
                               IF pc = "e_embed_true" THEN "embed_true"
                                                      ELSE "embed_generated" >>)
    /\ \/ /\ pc' = IF pc = "e_embed_true" THEN "e_embed_generated" ELSE "e_score"
          /\ UNCHANGED << results, generated_answer >>
       \/ /\ pc' = "e_ApiError"
          /\ results' = None
          /\ generated_answer' = None
    /\ UNCHANGED << ccvars, drvars, pnvars, rkvars, gavars, data_eval,
                    evaluation_results, results_file >>

\* the cosine similarity, calculate_bleu_scores, calculate_rouge_scores and
\* results.append: reference.split() raises AttributeError for a true answer
\* that is no str
EvScore ==
    /\ pc = "e_score"
    /\ LET row == data_eval[Len(results) + 1]
       IN  IF row.answer.kind # "str"
           THEN /\ pc' = "e_AttributeError"
                /\ results' = None
           ELSE /\ pc' = "e_loop"
                /\ results' = Append(results, [ question |-> row.question,
                                                ground_truth |-> row.answer,
                                                answer |-> generated_answer ])
    /\ generated_answer' = None
    /\ UNCHANGED << ccvars, drvars, pnvars, rkvars, gavars, data_eval, eval_calls,
                    evaluation_results, results_file >>

\* the loop is over: evaluation_results = pd.DataFrame(results)
EvReturn ==
    /\ pc = "e_loop"
    /\ Len(results) = Len(data_eval)
    /\ evaluation_results' = results
    /\ results' = None
    /\ pc' = "e_returned"
    /\ UNCHANGED << ccvars, drvars, pnvars, rkvars, gavars, data_eval, generated_answer,
                    eval_calls, results_file >>

\* the next cell, evaluation_results.to_csv: after an exception the name
\* evaluation_results is not bound and the cell raises NameError
EvSave ==
    /\ pc \in { "e_returned", "e_ApiError", "e_AttributeError" }
    /\ IF pc = "e_returned"
       THEN pc' = "e_saved" /\ results_file' = evaluation_results
       ELSE pc' = "e_NameError" /\ UNCHANGED results_file
    /\ UNCHANGED << ccvars, drvars, pnvars, rkvars, gavars, data_eval, results,
                    generated_answer, eval_calls, evaluation_results >>

NextEvaluate ==
    \/ EvRetrieve
    \/ EvGenerate
    \/ EvEmbed
    \/ EvScore
    \/ EvReturn
    \/ EvSave

SpecEvaluate == InitEvaluate /\ [][NextEvaluate]_vars

-----------------------------------------------------------------------------
(* Properties *)

TypeOK ==
    /\ run \in 1..2
    /\ pc \in {"start", "split", "banner", "trunc", "stripped", "expanded",
               "done", "raised", "expander",
               "d_start", "d_loaded", "d_copied", "d_assigned", "d_saved",
               "d_raised",
               "p_start", "p_connected", "p_upserting", "p_done",
               "p_ValueError",
               "r_start", "r_returned",
               "g_start", "g_context", "g_called", "g_returned", "g_ApiError",
               "e_loop", "e_generate", "e_embed_true", "e_embed_generated",
               "e_score", "e_returned", "e_saved", "e_ApiError",
               "e_AttributeError", "e_NameError"}
    /\ ab_todo \subseteq 1..Len(abbreviations)

\* a is an initial segment of b
IsPrefix(a, b) ==
    /\ Len(a) <= Len(b)
    /\ \A k \in 1..Len(a) : a[k] = b[k]

AsciiOnly(t) == \A i \in 1..Len(t) : IsAscii(t[i])

AsciiPart(t) == SelectSeq(t, IsAscii)

\* C1: the stop phrase loop cuts the fragment sequence at, and excluding, the
\* first fragment that contains a stop phrase; the fragments before it are
\* kept in order, and without such a fragment the sequence is unchanged.
C1_CutAtFirstStopPhrase ==
    [][ pc = "banner" =>
          \/ /\ \A m \in 1..Len(sentences) : ~HasStopPhrase(sentences[m])
             /\ sentences' = sentences
          \/ \E m \in 1..Len(sentences) :
               /\ HasStopPhrase(sentences[m])
               /\ \A j \in 1..(m - 1) : ~HasStopPhrase(sentences[j])
               /\ Len(sentences') = m - 1
               /\ \A j \in 1..(m - 1) : sentences'[j] = sentences[j] ]_vars

\* the loop has cut "Ab', 'the sensi', 'The Sensi', 'Ab" at its third
\* fragment: the lower-case "the sensi" is no stop phrase
C1_Witness ==
    /\ pc = "trunc"
    /\ run = 1
    /\ input = ScenarioCase
    /\ sentences = << <<65, 98>>, <<116, 104, 101, 32, 115, 101, 110, 115, 105>> >>

\* C2: the serialised list of scenario 1 yields exactly the text
\* "Hello world. This is a test."
C2_Scenario1Output ==
    (pc = "done" /\ run = 1 /\ input = Scenario1)
        => cleaned_text = <<72, 101, 108, 108, 111, 32, 119, 111, 114, 108, 100, 46, 32, 84, 104, 105, 115, 32, 105, 115, 32, 97, 32, 116, 101, 115, 116, 46>>

\* C3: every abbreviation of the table that occurs in the text when the
\* expansion starts has become its own expansion when the expansion ends; in
\* particular U.S.S.R. has become Soviet Union.
C3_EveryAbbreviationExpanded ==
    [][ pc = "stripped" =>
          \A n \in 1..Len(abbreviations) :
              Contains(cleaned_text, abbreviations[n].abbr)
                  => Contains(cleaned_text', abbreviations[n].full) ]_vars

\* "United States  and United Kingdom leaders met", two spaces after States
LeadersTwoSpaces == <<85, 110, 105, 116, 101, 100, 32, 83, 116, 97, 116, 101, 115, 32, 32, 97, 110, 100, 32, 85, 110, 105, 116, 101, 100, 32, 75, 105, 110, 103, 100, 111, 109, 32, 108, 101, 97, 100, 101, 114, 115, 32, 109, 101, 116>>
\* "United States and United Kingdom leaders met", one space after States
LeadersOneSpace == <<85, 110, 105, 116, 101, 100, 32, 83, 116, 97, 116, 101, 115, 32, 97, 110, 100, 32, 85, 110, 105, 116, 101, 100, 32, 75, 105, 110, 103, 100, 111, 109, 32, 108, 101, 97, 100, 101, 114, 115, 32, 109, 101, 116>>

\* C4 as stated: a content that contains "U.S. and U.K. leaders met" yields
\* an output that contains the expansion with two spaces after United States.
C4_TrailingSpacePreserved ==
    (pc = "done" /\ run = 1 /\ Contains(input, Scenario2))
        => Contains(cleaned_text, LeadersTwoSpaces)

\* C4 amended: the two spaces are there when the expansion ends and the
\* statements after it leave one: a text that contains the expansion with two
\* spaces is returned with one space in its place, and the content
\* "U.S. and U.K. leaders met" yields exactly
\* "United States and United Kingdom leaders met".
C4_TrailingSpaceCollapsed ==
    /\ [][ (pc = "expanded" /\ Contains(cleaned_text, LeadersTwoSpaces))
              => /\ Contains(cleaned_text', LeadersOneSpace)
                 /\ ~Contains(cleaned_text', LeadersTwoSpaces) ]_vars
    /\ []( (pc = "expanded" /\ run = 1 /\ input = Scenario2)
              => cleaned_text = LeadersTwoSpaces )
    /\ []( (pc = "done" /\ run = 1 /\ input = Scenario2)
              => cleaned_text = LeadersOneSpace )

C4_Witness ==
    /\ pc = "done"
    /\ run = 1
    /\ input = Scenario2
    /\ cleaned_text = LeadersOneSpace

\* C5 as stated: the output has ASCII characters only, and a non-ASCII
\* character is only ever deleted, never replaced: no clean-up step has more
\* ASCII characters after it than before it.
C5_NonAsciiOnlyDeleted ==
    /\ pc = "done" => AsciiOnly(cleaned_text)
    /\ pc = "trunc" =>
          LET T == CleanupTexts(sentences)
          IN  \A k \in 1..(Len(T) - 1) :
                  Len(AsciiPart(T[k + 1])) <= Len(AsciiPart(T[k]))

\* C5 amended: the output has ASCII characters only; the non-ASCII characters
\* that reach the removal of non-ASCII characters are deleted there and the
\* ASCII characters around them are kept in order ("caf(U+00E9)" yields
\* "caf"); the typographic apostrophes were replaced by ' before.
C5_OutputIsAscii ==
    /\ pc = "done" => AsciiOnly(cleaned_text)
    /\ pc \in {"stripped", "expanded"} => AsciiOnly(cleaned_text)
    /\ pc = "trunc" =>
          LET b == BeforeNonAsciiStrip(sentences)
          IN  /\ StripNonAscii(b) = AsciiPart(b)
              /\ \A i \in 1..Len(b) : b[i] \notin {8216, 8217}
    /\ (pc = "done" /\ run = 1 /\ input = Scenario3) => cleaned_text = <<99, 97, 102>>

\* "it(U+2019)s (U+00E9)" has been cleaned to "it's"
C5_Witness ==
    /\ pc = "done"
    /\ run = 1
    /\ input = <<105, 116, 8217, 115, 32, 233>>
    /\ cleaned_text = <<105, 116, 39, 115>>

\* C6: clean_content does not raise: re.split yields at least one fragment,
\* so sentences[0] exists, and sentences[11:] is taken of any list.
C6_NeverRaises ==
    /\ pc # "raised"
    /\ pc = "split" => Len(sentences) >= 1

\* a content of fewer than 11 fragments whose fragment zero has the marker
\* has been cleaned (to the empty string)
C6_Witness ==
    /\ pc = "done"
    /\ run = 1
    /\ input = BannerMarker \o <<39, 44, 32, 39, 65, 98>>
    /\ cleaned_text = <<>>

\* [a-zA-Z]
IsLetter(c) == c \in (65..90) \cup (97..122)

\* words of ASCII letters with single spaces between them
LettersSingleSpaced(t) ==
    /\ \A i \in 1..Len(t) : IsLetter(t[i]) \/ t[i] = 32
    /\ At(t, 1) # 32
    /\ At(t, Len(t)) # 32
    /\ \A i \in 1..(Len(t) - 1) : ~(t[i] = 32 /\ t[i + 1] = 32)

\* C7 as stated: the second call returns what it was given, for every input.
C7_Idempotent ==
    (pc = "done" /\ run = 2) => cleaned_text = content

\* C7 amended: the second call returns what it was given when the input of
\* the first call is made of words of ASCII letters with single spaces
\* between them.
C7_IdempotentOnWords ==
    (pc = "done" /\ run = 2 /\ LettersSingleSpaced(input))
        => cleaned_text = content

\* "Ab pv magazine" was cleaned to "Ab PV Magazine" and that text was cleaned
\* again
C7_Witness ==
    /\ pc = "done"
    /\ run = 2
    /\ input = <<65, 98, 32, 112, 118, 32, 109, 97, 103, 97, 122, 105, 110, 101>>
    /\ content = <<65, 98, 32, 80, 86, 32, 77, 97, 103, 97, 122, 105, 110, 101>>

\* C8 as stated: what leaves the truncation stage is an initial segment of
\* the fragment sequence of the segmenter.
C8_PrefixOfFragments ==
    pc = "trunc" => IsPrefix(sentences, Segment(content))

\* C8 amended: it is an initial segment of the fragment sequence when
\* fragment zero has no banner marker, and of the fragment sequence without
\* its first 11 fragments when it has.
C8_PrefixAfterBannerDrop ==
    pc = "trunc" =>
        LET fr == Segment(content)
        IN  IF Contains(fr[1], BannerMarker)
            THEN IsPrefix(sentences, SubSeq(fr, BannerDropCount + 1, Len(fr)))
            ELSE IsPrefix(sentences, fr)

\* fragments were removed from the front: the banner preamble is gone and
\* fragments after it are left
C8_Witness ==
    /\ pc = "trunc"
    /\ run = 1
    /\ Contains(Segment(content)[1], BannerMarker)
    /\ Len(sentences) >= 2
    /\ ~IsPrefix(sentences, Segment(content))

\* C9: the first 11 fragments are dropped when fragment zero contains the
\* banner marker and nothing is dropped when it does not, wherever else the
\* marker is; the drop comes before the stop phrase loop, so a stop phrase in
\* the dropped fragments cuts nothing.
C9_BannerDrop ==
    /\ [][ (pc = "split" /\ Len(sentences) >= 1) =>
             IF Contains(sentences[1], BannerMarker)
             THEN /\ Len(sentences') =
                        (IF Len(sentences) > 11 THEN Len(sentences) - 11 ELSE 0)
                  /\ \A k \in 1..Len(sentences') : sentences'[k] = sentences[k + 11]
             ELSE sentences' = sentences ]_vars
    /\ []( pc = "trunc" =>
             LET fr == Segment(content)
             IN  ( /\ Contains(fr[1], BannerMarker)
                   /\ \A k \in 12..Len(fr) : ~HasStopPhrase(fr[k]) )
                 => sentences = SubSeq(fr, 12, Len(fr)) )

\* the marker is in fragment zero, a stop phrase is among the 11 dropped
\* fragments, and the fragments after them are all there
C9_Witness ==
    /\ pc = "trunc"
    /\ run = 1
    /\ LET fr == Segment(content)
       IN  /\ Contains(fr[1], BannerMarker)
           /\ Len(fr) >= 13
           /\ \E k \in 2..11 : HasStopPhrase(fr[k])
           /\ sentences = SubSeq(fr, 12, Len(fr))

\* the occurrences of abbreviations in t: start index and table entry
Occurrences(t) ==
    { << i, n >> \in (1..Len(t)) \X (1..Len(abbreviations)) :
          StartsAt(t, i, abbreviations[n].abbr) }

\* no two occurrences of abbreviations in t share a character
NoOverlap(t) ==
    \A o1, o2 \in Occurrences(t) :
        \/ o1 = o2
        \/ o1[1] + Len(abbreviations[o1[2]].abbr) <= o2[1]
        \/ o2[1] + Len(abbreviations[o2[2]].abbr) <= o1[1]

\* C10 as stated: the six replacements give the result of the table order
\* in whatever order they are applied.
C10_OrderIrrelevant ==
    (pc = "expander" /\ ab_todo = {}) => ab_text = ExpandAbbreviations(ab_orig)

\* C10 amended: U.S. is a substring of U.S.S.R. and of no other key, no other
\* key is a substring of another, and the six replacements give the result
\* of the table order in whatever order they are applied when no two
\* occurrences of keys in the text overlap.
C10_OrderIrrelevantWithoutOverlap ==
    /\ \A m, n \in 1..Len(abbreviations) :
          (m # n /\ Contains(abbreviations[n].abbr, abbreviations[m].abbr))
              => (m = 1 /\ n = 6)
    /\ (pc = "expander" /\ ab_todo = {} /\ NoOverlap(ab_orig))
          => ab_text = ExpandAbbreviations(ab_orig)

\* "U.K.E.U." has had all six replacements
C10_Witness ==
    /\ pc = "expander"
    /\ ab_todo = {}
    /\ ab_orig = <<85, 46, 75, 46, 69, 46, 85, 46>>
    /\ NoOverlap(ab_orig)
    /\ ab_text = <<85, 110, 105, 116, 101, 100, 32, 75, 105, 110, 103, 100, 111, 109, 69, 117, 114, 111, 112, 101, 97, 110, 32, 85, 110, 105, 111, 110>>

\* the content is empty or has bracket characters only
OnlyBracketChars(t) == \A i \in 1..Len(t) : t[i] \in {91, 93}

\* C11 as stated: for an empty content, or one of bracket characters only,
\* the segmentation yields the empty sequence of fragments.
C11_EmptyYieldsNoFragments ==
    (pc = "split" /\ OnlyBracketChars(content)) => sentences = <<>>

\* C11 amended: for an empty content, or one of bracket characters only, the
\* segmentation yields a sequence of exactly one fragment, the empty string.
C11_EmptyYieldsOneEmptyFragment ==
    (pc = "split" /\ OnlyBracketChars(content)) => sentences = << <<>> >>

\* the content "[]" of the first call has been segmented
C11_Witness ==
    /\ pc = "split"
    /\ run = 1
    /\ input = OnlyBrackets
    /\ Len(sentences) = 1

\* the rows of the loaded corpus whose content is no str
BadRows == { n \in 1..Len(data.rows) : data.rows[n]["content"].kind # "str" }

\* C12: when clean_content fails on the content of an article, the failure
\* ends the apply, the column is not assigned and the processed file is never
\* written; the driver stops at the first such article, and without such an
\* article it does not fail.
C12_FailureAbortsBatch ==
    /\ (data # None /\ BadRows # {}) =>
          /\ processed_file = None
          /\ pc \notin {"d_assigned", "d_saved"}
          /\ data_cleaned # None =>
                \A n \in 1..Len(data.rows) :
                    data_cleaned.rows[n]["content"] = data.rows[n]["content"]
    /\ pc = "d_raised" =>
          /\ Len(applied) + 1 \in BadRows
          /\ \A n \in BadRows : n > Len(applied)

\* the second article has no content: the first was cleaned, the apply
\* failed at the second, and no processed file exists
C12_Witness ==
    /\ pc = "d_raised"
    /\ Len(applied) = 1
    /\ Len(data.rows) = 2
    /\ processed_file = None

\* the columns that the driver does not touch
KeptColumns == { "title", "date", "domain", "url" }

\* C13: the processed file has the columns of the loaded corpus without
\* author, in their order, and one line per article of the raw file in the
\* order of the raw file, also for an article whose cleaned content is empty;
\* title, date, domain and url are those of the raw file and content is the
\* cleaned content; the frame data and the raw file never change.
C13_OnlyContentChanges ==
    /\ [](pc = "d_saved" =>
            /\ processed_file.columns = << "title", "date", "content", "domain", "url" >>
            /\ \A j \in 1..Len(data.columns) :
                  data.columns[j] # "author" =>
                      \E k \in 1..Len(processed_file.columns) :
                          processed_file.columns[k] = data.columns[j]
            /\ Len(processed_file.rows) = Len(raw_file.rows)
            /\ \A n \in 1..Len(raw_file.rows) :
                  /\ DOMAIN processed_file.rows[n] = KeptColumns \cup {"content"}
                  /\ \A c \in KeptColumns :
                        processed_file.rows[n][c] = raw_file.rows[n][c]
                  /\ processed_file.rows[n]["content"] =
                        clean_content(raw_file.rows[n]["content"]))
    /\ [][/\ raw_file' = raw_file
          /\ data # None => data' = data]_vars

\* a corpus of two articles was saved: the content of the first was cleaned
\* to the empty string, that of the second was changed
C13_Witness ==
    /\ pc = "d_saved"
    /\ Len(processed_file.rows) = 2
    /\ raw_file.rows[1]["content"] = OnlyBrackets
    /\ processed_file.rows[1]["content"] = <<>>
    /\ raw_file.rows[2]["content"] = Scenario2
    /\ processed_file.rows[2]["content"] = LeadersOneSpace

\* the index the call names, when the project has it
NamedIndex == CHOOSE ix \in service : ix.name = call.index_name

\* C14: upsert_embeddings calls upsert only when is_new_index is true; when
\* it is false no call is made, and when it is true the batches it has
\* called upsert with by the time it returns are the validated records, in
\* order, each batch with at least one and at most batch_size records.
C14_UpsertOnlyWhenNew ==
    /\ ~is_new_index => upserts = << >>
    /\ \A k \in 1..Len(upserts) :
          /\ Len(upserts[k]) \in 1..call.batch_size
          /\ \A n \in 1..Len(upserts[k]) : IsValidEmbedding(upserts[k][n].values)
    /\ (pc = "p_done" /\ is_new_index) =>
          Join(upserts, << >>) = Validated(embeddings)

\* the index was created, one of two rows had no valid embedding, and the
\* other was given to upsert
C14_Witness ==
    /\ pc = "p_done"
    /\ is_new_index
    /\ Len(embeddings.rows) = 2
    /\ Len(upserts) = 1
    /\ Len(upserts[1]) = 1

\* C15: initialize_pinecone_index returns is_new_index true exactly when the
\* named index did not exist before the call and exists after it, false
\* exactly when it existed before and the project is unchanged, and the named
\* index exists after every return.
C15_FlagIffCreated ==
    [][ (pc = "p_start" /\ pc' = "p_connected") =>
            /\ is_new_index' <=>
                  /\ call.index_name \notin existing_indexes(service)
                  /\ call.index_name \in existing_indexes(service')
            /\ ~is_new_index' <=>
                  /\ call.index_name \in existing_indexes(service)
                  /\ service' = service
            /\ call.index_name \in existing_indexes(service') ]_vars

\* the call has created the index next to another index of the project
C15_Witness ==
    /\ pc = "p_connected"
    /\ is_new_index
    /\ existing_indexes(service) = { "other", index_name }

\* C16: when the named index does not exist and create_if_not_exists is
\* false, or it is true and dimension is None, the call raises ValueError and
\* the indexes of the project are those before the call.
C16_ValueErrorLeavesIndexes ==
    [][ ( /\ pc = "p_start"
          /\ call.index_name \notin existing_indexes(service)
          /\ (~call.create_if_not_exists \/ call.dimension = None) ) =>
            /\ pc' = "p_ValueError"
            /\ service' = service ]_vars

\* ValueError was raised for a call with create_if_not_exists true and no
\* dimension; the project has its other index only
C16_Witness ==
    /\ pc = "p_ValueError"
    /\ call.create_if_not_exists
    /\ call.dimension = None
    /\ existing_indexes(service) = { "other" }

\* C17: when the Example Usage cell has created the index and the embeddings
\* are those of text-embedding-ada-002, each record given to upsert has as
\* many values as the dimension of the index.
C17_DimensionMatchesEmbeddings ==
    ( /\ call = SetupCall
      /\ is_new_index
      /\ \A n \in 1..Len(embeddings.rows) :
            embeddings.rows[n].embeddings.len = AdaDimension ) =>
        \A k \in 1..Len(upserts) : Accepts(NamedIndex, upserts[k])

\* the ranking score of C18: similarity score plus relevance_score, a
\* missing relevance_score counting as 0
RankingScore(chunk) ==
    chunk.score +
        (IF "relevance_score" \in DOMAIN chunk.metadata
         THEN chunk.metadata.relevance_score ELSE 0)

\* C18: what rerank_results returns, and retrieve_relevant_chunks with it, is
\* a permutation of the retrieved matches in the order of non-increasing
\* ranking score.
C18_PermutationByRankingScore ==
    pc = "r_returned" =>
        /\ Len(reranked_chunks) = Len(retrieved_chunks)
        /\ \E perm \in [1..Len(retrieved_chunks) -> 1..Len(retrieved_chunks)] :
              /\ \A i, j \in 1..Len(retrieved_chunks) : perm[i] = perm[j] => i = j
              /\ \A i \in 1..Len(retrieved_chunks) :
                    reranked_chunks[i] = retrieved_chunks[perm[i]]
        /\ \A i, j \in 1..Len(reranked_chunks) :
              i < j => RankingScore(reranked_chunks[i]) >= RankingScore(reranked_chunks[j])

\* retrieve_relevant_chunks has returned three matches; the match with the
\* lower similarity score and a relevance_score comes before one with the
\* higher similarity score
C18_Witness ==
    /\ pc = "r_returned"
    /\ additional_criteria = None
    /\ Len(reranked_chunks) = 3
    /\ reranked_chunks[1].score < reranked_chunks[2].score
    /\ reranked_chunks[1] # retrieved_chunks[1]

\* C19: when a function is passed as additional_criteria, the result is in
\* the order of non-increasing ranking score plus the additional score the
\* function gives the chunk.
C19_CriteriaUsed ==
    (pc = "r_returned" /\ additional_criteria # None) =>
        \A i, j \in 1..Len(reranked_chunks) :
            i < j =>
                RankingScore(reranked_chunks[i])
                        + additional_criteria.score[reranked_chunks[i].id]
                    >= RankingScore(reranked_chunks[j])
                        + additional_criteria.score[reranked_chunks[j].id]

\* chunk c has metadata with a text that has a character that is no
\* whitespace
HasText(c) ==
    /\ "metadata" \in DOMAIN c
    /\ "text" \in DOMAIN c.metadata
    /\ \E i \in 1..Len(c.metadata.text) : ~IsSpace(c.metadata.text[i])

\* C20: when there are no chunks, or no chunk has metadata text with a
\* character that is no whitespace, generate_answer makes no chat completion
\* call and returns the fixed message; otherwise it makes exactly one call.
C20_NoCallOnEmptyContext ==
    /\ (\A n \in 1..Len(chunks) : ~HasText(chunks[n])) =>
          /\ chat_calls = << >>
          /\ pc \notin { "g_called", "g_ApiError" }
          /\ pc = "g_returned" => answer = Str(InsufficientContext)
    /\ (\E n \in 1..Len(chunks) : HasText(chunks[n])) =>
          /\ pc \in { "g_called", "g_returned", "g_ApiError" } => Len(chat_calls) = 1
          /\ pc \in { "g_start", "g_context" } => chat_calls = << >>

\* the fixed message was returned for a chunk without metadata and a chunk
\* whose text is whitespace, a context that is not the empty string
C20_Witness ==
    /\ pc = "g_returned"
    /\ Len(chunks) = 2
    /\ "metadata" \notin DOMAIN chunks[1]
    /\ context = << 32, 32, 10 >>
    /\ chat_calls = << >>
    /\ answer = Str(InsufficientContext)

-----------------------------------------------------------------------------
(* C21 *)

\* the last steps of the clean-up in the order the design lists them: the
\* period clean-up, then the literal replacements and the cookie sentence
StripperAsListed(ss) ==
    RemoveCookieText(FinalReplacements(DropPeriods(StripArtifacts(ss))))

\* C21 as stated: the output of clean_content is the abbreviation expansion
\* of the finished clean-up of the truncated fragments (its last steps taken
\* in the listed order or in the order of the code), and nothing runs after
\* the expansion.
C21_ExpansionLast ==
    pc = "done" =>
        \/ cleaned_text = ExpandAbbreviations(StripperAsListed(sentences))
        \/ cleaned_text = ExpandAbbreviations(Finish(StripArtifacts(sentences)))

\* C21 amended: the expansion runs on the text the clean-up has produced up
\* to the u200b filter, and the literal replacements, the period clean-up
\* and the removal of the cookie sentence run after it, in this order.
C21_ExpansionBeforeLastSteps ==
    /\ pc = "stripped" => cleaned_text = StripArtifacts(sentences)
    /\ pc = "expanded" =>
          cleaned_text = ExpandAbbreviations(StripArtifacts(sentences))
    /\ pc = "done" =>
          cleaned_text =
              RemoveCookieText(DropPeriods(FinalReplacements(
                  ExpandAbbreviations(StripArtifacts(sentences)))))

\* "U.S. and U.K. leaders met" was cleaned: the abbreviations are expanded,
\* which they are not once their periods are dropped
C21_Witness ==
    /\ pc = "done"
    /\ run = 1
    /\ input = Scenario2
    /\ cleaned_text = LeadersOneSpace
    /\ ExpandAbbreviations(StripperAsListed(sentences)) # cleaned_text


-----------------------------------------------------------------------------
(* C22 *)

\* a digit
IsDigit(c) == c \in 48..57

\* C22: in every output of clean_content each period is followed by one
\* space and an uppercase ASCII letter; so the output does not end with a
\* period and has no period between two digits or two letters.
C22_PeriodsBeforeCapital ==
    pc = "done" =>
        /\ \A i \in 1..Len(cleaned_text) :
              cleaned_text[i] = 46 =>
                  /\ i + 2 <= Len(cleaned_text)
                  /\ cleaned_text[i + 1] = 32
                  /\ IsUpper(cleaned_text[i + 2])
        /\ cleaned_text # <<>> => cleaned_text[Len(cleaned_text)] # 46
        /\ \A i \in 2..(Len(cleaned_text) - 1) :
              cleaned_text[i] = 46 =>
                  /\ ~(IsDigit(cleaned_text[i - 1]) /\ IsDigit(cleaned_text[i + 1]))
                  /\ ~(IsLetter(cleaned_text[i - 1]) /\ IsLetter(cleaned_text[i + 1]))

\* "Cost 3.5 e.g. The Dr. Smith met." was cleaned: the periods of 3.5, the
\* first of e.g. and the last one are gone, those before " The" and " Smith"
\* are kept; "Cost 35 eg. The Dr. Smith met"
C22_Witness ==
    /\ pc = "done"
    /\ run = 1
    /\ input = ScenarioTexts[9]
    /\ cleaned_text = <<67, 111, 115, 116, 32, 51, 53, 32, 101, 103, 46, 32, 84, 104, 101, 32, 68, 114, 46, 32, 83, 109, 105, 116, 104, 32, 109, 101, 116>>


-----------------------------------------------------------------------------
(* C23 *)

\* a closing brace at index j that whitespace and a closing parenthesis follow
ClosesAt(t, j) == At(t, j) = 125 /\ At(t, j + 1 + WsRun(t, j + 1)) = 41

\* the last index of the block that the closing brace at index j ends: its
\* parenthesis, or the comma after it
BlockLast(t, j) ==
    LET e == j + 1 + WsRun(t, j + 1)
    IN  IF At(t, e + 1) = 44 THEN e + 1 ELSE e

\* the joined text t has exactly two blocks: i is its first opening brace, j1
\* the nearest closing after i, k the first opening brace after that block,
\* j2 the nearest closing after k, which is the last closing of the text
TwoBlocks(t, i, j1, k, j2) ==
    /\ i < j1 /\ BlockLast(t, j1) < k /\ k < j2
    /\ t[i] = 123 /\ \A m \in 1..(i - 1) : t[m] # 123
    /\ ClosesAt(t, j1) /\ \A m \in (i + 1)..(j1 - 1) : ~ClosesAt(t, m)
    /\ t[k] = 123 /\ \A m \in (BlockLast(t, j1) + 1)..(k - 1) : t[m] # 123
    /\ ClosesAt(t, j2) /\ \A m \in (k + 1)..(j2 - 1) : ~ClosesAt(t, m)
    /\ \A m \in (j2 + 1)..Len(t) : ~ClosesAt(t, m)

\* "Ab ef"
AbEf == <<65, 98, 32, 101, 102>>
\* "Ab cd ef"
AbCdEf == <<65, 98, 32, 99, 100, 32, 101, 102>>

\* C23 as stated: the removal of brace blocks is greedy: when the joined text
\* has two blocks, one match runs from the first opening brace to the end of
\* the last block, and the text between the blocks is removed with them;
\* "Ab {x}) cd {y}) ef" yields "Ab ef".
C23_GreedyBraceMatch ==
    /\ pc = "trunc" =>
          LET t == NormalizeApostrophes(JoinSentences(sentences))
              I == { i \in 1..Len(t) : t[i] = 123 }
              J == { j \in 1..Len(t) : ClosesAt(t, j) }
          IN  \A i \in I, k \in I, j1 \in J, j2 \in J :
                  TwoBlocks(t, i, j1, k, j2) =>
                      RemoveBraceBlocks(t) =
                          SubSeq(t, 1, i - 1)
                              \o SubSeq(t, BlockLast(t, j2) + 1, Len(t))
    /\ (pc = "done" /\ run = 1 /\ input = ScenarioTexts[5]) => cleaned_text = AbEf

\* C23 amended: the removal of brace blocks is lazy: each match runs from an
\* opening brace to the nearest closing brace that a parenthesis follows;
\* when the joined text has two blocks, each is removed on its own and the
\* text between them is kept; "Ab {x}) cd {y}) ef" yields "Ab cd ef".
C23_LazyBraceMatch ==
    /\ pc = "trunc" =>
          LET t == NormalizeApostrophes(JoinSentences(sentences))
              I == { i \in 1..Len(t) : t[i] = 123 }
              J == { j \in 1..Len(t) : ClosesAt(t, j) }
          IN  \A i \in I, k \in I, j1 \in J, j2 \in J :
                  TwoBlocks(t, i, j1, k, j2) =>
                      RemoveBraceBlocks(t) =
                          SubSeq(t, 1, i - 1)
                              \o SubSeq(t, BlockLast(t, j1) + 1, k - 1)
                              \o SubSeq(t, BlockLast(t, j2) + 1, Len(t))
    /\ (pc = "done" /\ run = 1 /\ input = ScenarioTexts[5]) => cleaned_text = AbCdEf

\* "Ab {x}) cd {y}) ef" was cleaned: the text between the two blocks is in
\* the output
C23_Witness ==
    /\ pc = "done"
    /\ run = 1
    /\ input = ScenarioTexts[5]
    /\ \E i, j1, k, j2 \in 1..Len(input) : TwoBlocks(input, i, j1, k, j2)
    /\ cleaned_text = AbCdEf


-----------------------------------------------------------------------------
(* C24 *)

\* the cookie sentence as it stands in an article, cookie_text without the
\* space at its end
CookieSentence == SubSeq(cookie_text, 1, Len(cookie_text) - 1)

\* "By clicking Allow All you agree to the storing of cookies"
CookieOpening == <<66, 121, 32, 99, 108, 105, 99, 107, 105, 110, 103, 32, 65, 108, 108, 111, 119, 32, 65, 108, 108, 32, 121, 111, 117, 32, 97, 103, 114, 101, 101, 32, 116, 111, 32, 116, 104, 101, 32, 115, 116, 111, 114, 105, 110, 103, 32, 111, 102, 32, 99, 111, 111, 107, 105, 101, 115>>

\* C24: a content that contains the cookie sentence is returned without it,
\* whatever follows the sentence: a capitalised sentence, a lowercase word or
\* the end of the text.
C24_CookieSentenceRemoved ==
    (pc = "done" /\ run = 1 /\ Contains(input, CookieSentence))
        => ~Contains(cleaned_text, CookieOpening)


-----------------------------------------------------------------------------
(* C25 *)

\* "Tail"
TailText == <<84, 97, 105, 108>>

\* C25: every phrase of the stop-phrase table is effective: when the content
\* contains the phrase, the fragments kept by the truncation contain neither
\* the phrase nor the text that followed it, also when the phrase contains a
\* sentence boundary.
C25_EveryStopPhraseEffective ==
    \A n \in 1..Len(stop_phrases) :
        (pc = "trunc" /\ run = 1 /\ Contains(input, stop_phrases[n])) =>
            /\ ~Contains(JoinSentences(sentences), stop_phrases[n])
            /\ \A m \in 1..Len(sentences) : ~Contains(sentences[m], TailText)


-----------------------------------------------------------------------------
(* C26 *)

\* C26: the output of clean_content has no two whitespace characters in a
\* row and neither starts nor ends with a whitespace character.
C26_WhitespaceNormalised ==
    pc = "done" =>
        /\ \A i \in 1..(Len(cleaned_text) - 1) :
              ~(IsSpace(cleaned_text[i]) /\ IsSpace(cleaned_text[i + 1]))
        /\ cleaned_text # <<>> =>
              /\ ~IsSpace(cleaned_text[1])
              /\ ~IsSpace(cleaned_text[Len(cleaned_text)])


-----------------------------------------------------------------------------
(* C27 *)

\* the index of the call exists in the project
IndexExists == call.index_name \in existing_indexes(service)

\* every record of a valid embedding is stored in the index of the call
IndexComplete ==
    \A ix \in service :
        ix.name = call.index_name =>
            \A n \in 1..Len(Validated(embeddings)) :
                Validated(embeddings)[n] \in ix.vectors

\* C27: over any sequence of runs of the setup, an index that exists comes
\* to contain every validated record at some time: a later run upserts what
\* an earlier run did not.
C27_LaterRunRepairs == IndexExists ~> IndexComplete


-----------------------------------------------------------------------------
(* C28 *)

\* the records of batch b are stored in the index of the call
BatchStored(b) ==
    \A ix \in service :
        ix.name = call.index_name => \A n \in 1..Len(b) : b[n] \in ix.vectors

\* C28: on a new index, an upsert that raises is only printed: the batches
\* are attempted once each in the order of the records, whether or not an
\* earlier one failed, the loop is left only at its end, and
\* upsert_embeddings returns normally.
C28_FailedBatchOnlyPrinted ==
    /\ []( (is_new_index /\ pc \in { "p_upserting", "p_done" }) =>
              /\ Len(upserts) <= BatchCount(records, call.batch_size)
              /\ \A k \in 1..Len(upserts) :
                    upserts[k] = Batch(records, call.batch_size, k)
              /\ pc = "p_done" =>
                    Len(upserts) = BatchCount(records, call.batch_size) )
    /\ [][ pc = "p_upserting" =>
              /\ pc' \in { "p_upserting", "p_done" }
              /\ pc' = "p_done" => upserts' = upserts
              /\ pc' = "p_upserting" =>
                    upserts' = Append(upserts,
                                      Batch(records, call.batch_size, Len(upserts) + 1))
         ]_vars

\* upsert_embeddings has returned on a new index: the upsert of the first of
\* two batches failed, the second batch was attempted and is stored
C28_Witness ==
    /\ pc = "p_done"
    /\ is_new_index
    /\ Len(upserts) = 2
    /\ upserts[1] # upserts[2]
    /\ ~BatchStored(upserts[1])
    /\ BatchStored(upserts[2])


\* the k-th call of an evaluation without a failure: the four calls of
\* example 1, then the four calls of example 2, and so on
CallInOrder(k) ==
    << ((k - 1) \div 4) + 1,
       << "retrieve", "generate", "embed_true", "embed_generated" >>[((k - 1) % 4) + 1] >>

\* an exception has left evaluate_pipeline
EvaluationFailed == pc \in { "e_ApiError", "e_AttributeError", "e_NameError" }

\* C29: evaluate_pipeline evaluates the examples one at a time in dataset
\* order and makes every call once, never again after a failure; when it
\* returns, the frame has exactly one row per example, in the order of
\* data_eval; when a retrieval, generation, embedding or scoring step raises,
\* the exception leaves evaluate_pipeline, the rows of the examples before are
\* lost, evaluation_results is not bound and no results file is written.
C29_SequentialNoRetryAllOrNothing ==
    /\ \A k \in 1..Len(eval_calls) :
         /\ eval_calls[k] = CallInOrder(k)
         /\ eval_calls[k][1] <= Len(data_eval)
    /\ pc \in { "e_returned", "e_saved" } =>
         /\ Len(eval_calls) = 4 * Len(data_eval)
         /\ Len(evaluation_results) = Len(data_eval)
         /\ \A n \in 1..Len(data_eval) :
              /\ evaluation_results[n].question = data_eval[n].question
              /\ evaluation_results[n].ground_truth = data_eval[n].answer
    /\ pc = "e_saved" => results_file = evaluation_results
    /\ pc # "e_saved" => results_file = None
    /\ EvaluationFailed =>
         /\ results = None
         /\ evaluation_results = None
         /\ results_file = None

\* the generation for the second example has raised after the first example
\* was evaluated, and the saving cell was tried
C29_Witness ==
    /\ pc = "e_NameError"
    /\ Len(data_eval) = 2
    /\ Len(eval_calls) = 6


EndsSentence(t) == t # << >> /\ t[Len(t)] \in { 46, 63, 33 }

\* C30: every answer generate_answer returns ends with ".", "?" or "!", be
\* it the fixed message or a completion, an empty or blank completion
\* included.
C30_EveryAnswerEndsSentence ==
    pc = "g_returned" => EndsSentence(answer.val)

\* C30, amended: every answer generate_answer returns is the empty string or
\* ends with ".", "?" or "!"; the empty string is returned only for a
\* completion, and without a chat call the answer is the fixed message.
C30_NonEmptyAnswerEndsSentence ==
    pc = "g_returned" =>
        /\ answer.kind = "str"
        /\ answer.val = << >> \/ EndsSentence(answer.val)
        /\ answer.val = << >> => chat_calls # << >>
        /\ chat_calls = << >> => answer.val = InsufficientContext

\* the completion "Yes" or " Yes " has come back as "Yes."
C30_Witness ==
    /\ pc = "g_returned"
    /\ chat_calls # << >>
    /\ answer = Str(<<89, 101, 115, 46>>)

=============================================================================
